---- MODULE Spec2Model ----
(***************************************************************************)
(* Hazard sampling and aggregation engine of hazardinfo-restapi            *)
(* (src/app/hazard_info.py and its helpers).                               *)
(*                                                                         *)
(* Strings of the source that are not ASCII are written in romaji:         *)
(*   "情報なし"      -> "joho_nashi"           (unclassified / no info)    *)
(*   "浸水なし"      -> "shinsui_nashi"        (flood depth: no risk)      *)
(*   "浸水想定なし"  -> "shinsui_sotei_nashi"  (tsunami, tide, duration)   *)
(*   "該当なし"      -> "gaito_nashi"          (landslide layers)          *)
(*   "処理失敗"      -> "shori_shippai"        (flood: pixel read failed)  *)
(*   "あり"          -> "ari"                  (large fill land: present)  *)
(*   "無効"          -> "muko"                 (large fill land disabled)  *)
(* Weights are kept in tenths (weight 0.5 is 5, weight 1 is 10, the        *)
(* unclassified weight -1 is -10) so that they stay integers.              *)
(***************************************************************************)
EXTENDS Integers, Sequences, FiniteSets, TLC

(***************************************************************************)
(* Bounds of the model.                                                    *)
(***************************************************************************)
\* ring points besides the centre (the code's 16, 8 or 4)
RingPoints == 2
\* distinct tile addresses the ring may touch
MaxTiles == 2

(***************************************************************************)
(* Program constants.                                                      *)
(***************************************************************************)
TILE_SIZE == 256
MAX_WORKERS == 4

(***************************************************************************)
(* Colour tables (hazard_info.py:70-144), weights in tenths.               *)
(***************************************************************************)
INUNDATION_COLOR_MAP ==
    (<<220, 122, 220>> :> [description |-> "20m_ijo", weight |-> 200]) @@
    (<<242, 133, 201>> :> [description |-> "10m_ijo_20m_miman", weight |-> 100]) @@
    (<<255, 145, 145>> :> [description |-> "5m_ijo_10m_miman", weight |-> 50]) @@
    (<<255, 183, 183>> :> [description |-> "3m_ijo_5m_miman", weight |-> 30]) @@
    (<<255, 216, 192>> :> [description |-> "0.5m_ijo_3m_miman", weight |-> 10]) @@
    (<<248, 225, 166>> :> [description |-> "0.5m_ijo_1m_miman", weight |-> 5]) @@
    (<<247, 245, 169>> :> [description |-> "0.5m_miman", weight |-> 4]) @@
    (<<255, 255, 179>> :> [description |-> "0.3m_miman", weight |-> 2])

DEBRIS_FLOW_COLOR_MAP ==
    (<<165, 0, 33>> :> [description |-> "dosekiryu_tokubetsu", weight |-> 20]) @@
    (<<230, 200, 50>> :> [description |-> "dosekiryu", weight |-> 10])

STEEP_SLOPE_COLOR_MAP ==
    (<<250, 40, 0>> :> [description |-> "kyukeishachi_tokubetsu", weight |-> 20]) @@
    (<<250, 230, 0>> :> [description |-> "kyukeishachi", weight |-> 10])

LANDSLIDE_COLOR_MAP ==
    (<<180, 0, 40>> :> [description |-> "jisuberi_tokubetsu", weight |-> 20]) @@
    (<<255, 153, 0>> :> [description |-> "jisuberi", weight |-> 10])

TSUNAMI_COLOR_MAP == INUNDATION_COLOR_MAP

HIGH_TIDE_COLOR_MAP == INUNDATION_COLOR_MAP

FLOOD_KEIZOKU_COLOR_MAP ==
    (<<96, 0, 96>> :> [description |-> "4shukan_ijo", weight |-> 280]) @@
    (<<180, 0, 104>> :> [description |-> "2shukan_ijo", weight |-> 210]) @@
    (<<255, 40, 0>> :> [description |-> "1shukan_2shukan_miman", weight |-> 140]) @@
    (<<255, 153, 0>> :> [description |-> "3nichi_1shukan_miman", weight |-> 70]) @@
    (<<250, 245, 0>> :> [description |-> "1nichi_3nichi_miman", weight |-> 30]) @@
    (<<0, 65, 255>> :> [description |-> "12jikan_1nichi_miman", weight |-> 10]) @@
    (<<160, 210, 255>> :> [description |-> "12jikan_miman", weight |-> 5])

\* The callers of _get_max_info_from_tile: colour table and no-risk description.
TileLayers ==
    ("tsunami" :> [color_map |-> TSUNAMI_COLOR_MAP,
                   no_risk_description |-> "shinsui_sotei_nashi"]) @@
    ("high_tide" :> [color_map |-> HIGH_TIDE_COLOR_MAP,
                     no_risk_description |-> "shinsui_sotei_nashi"]) @@
    ("flood_keizoku" :> [color_map |-> FLOOD_KEIZOKU_COLOR_MAP,
                         no_risk_description |-> "shinsui_sotei_nashi"]) @@
    ("steep_slope" :> [color_map |-> STEEP_SLOPE_COLOR_MAP,
                       no_risk_description |-> "gaito_nashi"]) @@
    ("debris_flow" :> [color_map |-> DEBRIS_FLOW_COLOR_MAP,
                       no_risk_description |-> "gaito_nashi"]) @@
    ("landslide" :> [color_map |-> LANDSLIDE_COLOR_MAP,
                     no_risk_description |-> "gaito_nashi"])

(***************************************************************************)
(* Inputs: what a tile server may answer and what a pixel may hold.        *)
(***************************************************************************)
\* what requests.get / the body of the response can be for one tile
Responses == {"image", "transport_error", "http_error", "undecodable"}

\* RGB values drawn for the sampled pixels: table colours of several layers
\* (one shared by the duration and the landslide table) and one colour that
\* is in no table
SampleColors ==
    { <<255, 183, 183>>, <<248, 225, 166>>, <<255, 153, 0>>,
      <<180, 0, 40>>, <<0, 65, 255>>, <<1, 2, 3>> }

\* an RGBA pixel; alpha is fully transparent or opaque
Pixels == [rgb : SampleColors, a : {0, 255}]

\* img.getpixel either yields a pixel or raises (an image smaller than the
\* tile size)
ReadFail == [rgb |-> << >>, a |-> -1]

Reads == Pixels \cup {ReadFail}

NoneVal == "None"

Img == "Img"

(***************************************************************************)
(* Pure functions.                                                         *)
(***************************************************************************)
\* _fetch_single_tile: only requests.exceptions.RequestException is caught.
\* A transport error and raise_for_status() on a non-2xx status raise one;
\* Image.open on a body that is no image raises PIL.UnidentifiedImageError,
\* which is not one and leaves the function.
fetch_single_tile(response) ==
    CASE response = "image" -> [kind |-> "return", value |-> Img]
      [] response \in {"transport_error", "http_error"} ->
            [kind |-> "return", value |-> NoneVal]
      [] OTHER -> [kind |-> "raise", value |-> NoneVal]

NoRiskInfo(no_risk_description) ==
    [description |-> no_risk_description, weight |-> 0]

\* mutant: the unclassified category gets weight +1 instead of -1
ClassifyPixelPositiveUnknown(pixel, color_map, no_risk_description) ==
    IF pixel.rgb \in DOMAIN color_map
    THEN color_map[pixel.rgb]
    ELSE IF pixel.a = 0
         THEN [description |-> no_risk_description, weight |-> 0]
         ELSE [description |-> "joho_nashi", weight |-> 10]

\* mutant: a colour that is in no table is taken for no risk
ClassifyPixelUnknownAsNoRisk(pixel, color_map, no_risk_description) ==
    IF pixel.rgb \in DOMAIN color_map
    THEN color_map[pixel.rgb]
    ELSE [description |-> no_risk_description, weight |-> 0]

\* The classification of one pixel, as written in each sampling loop:
\* table lookup on RGB, then the alpha test, else "joho_nashi" with weight -1.
ClassifyPixel(pixel, color_map, no_risk_description) ==
    IF pixel.rgb \in DOMAIN color_map
    THEN color_map[pixel.rgb]
    ELSE IF pixel.a = 0
         THEN [description |-> no_risk_description, weight |-> 0]
         ELSE [description |-> "joho_nashi", weight |-> -10]

\* mutant: the last classified point becomes the maximum
UpdateMaxLastSeen(max_info, current_info) == current_info

\* mutant: an equal weight replaces the stored maximum too
UpdateMaxOnTie(max_info, current_info) ==
    IF current_info.weight >= max_info.weight THEN current_info ELSE max_info

\* replaces the stored maximum only by a strictly greater weight
UpdateMax(max_info, current_info) ==
    IF current_info.weight > max_info.weight THEN current_info ELSE max_info

\* mutant: every classified point overwrites the centre
ProcessTilePixelAnyCentre(acc, is_center_point, read, color_map, no_risk_description) ==
    IF read = ReadFail
    THEN acc
    ELSE LET current_info == ClassifyPixel(read, color_map, no_risk_description)
         IN [max_info |-> UpdateMax(acc.max_info, current_info),
             center_info |-> current_info]

\* One iteration of the loop of _get_max_info_from_tile_8_directions and of
\* _get_max_info_from_tile_high_precision over an image that was fetched.
\* acc = [max_info, center_info]; read is a pixel or ReadFail.
ProcessTilePixel(acc, is_center_point, read, color_map, no_risk_description) ==
    IF read = ReadFail
    THEN [max_info |-> acc.max_info,
          center_info |-> IF is_center_point
                          THEN NoRiskInfo(no_risk_description)
                          ELSE acc.center_info]
    ELSE LET current_info == ClassifyPixel(read, color_map, no_risk_description)
         IN [max_info |-> UpdateMax(acc.max_info, current_info),
             center_info |-> IF is_center_point THEN current_info
                             ELSE acc.center_info]

\* mutant: the centre point is left out of the maximum
ProcessFloodPixelCentreApart(acc, is_center_point, read) ==
    IF read = ReadFail
    THEN [max_info |-> acc.max_info,
          center_info |-> IF is_center_point
                          THEN [description |-> "shori_shippai", weight |-> -10]
                          ELSE acc.center_info]
    ELSE LET current_depth_info ==
                 ClassifyPixel(read, INUNDATION_COLOR_MAP, "shinsui_nashi")
         IN [max_info |-> IF is_center_point THEN acc.max_info
                          ELSE UpdateMax(acc.max_info, current_depth_info),
             center_info |-> IF is_center_point THEN current_depth_info
                             ELSE acc.center_info]

\* One iteration of the first loop of get_inundation_depth_from_gsi_tile
\* (the maximum-scale layer).
ProcessFloodPixel(acc, is_center_point, read) ==
    IF read = ReadFail
    THEN [max_info |-> acc.max_info,
          center_info |-> IF is_center_point
                          THEN [description |-> "shori_shippai", weight |-> -10]
                          ELSE acc.center_info]
    ELSE LET current_depth_info ==
                 ClassifyPixel(read, INUNDATION_COLOR_MAP, "shinsui_nashi")
         IN [max_info |-> UpdateMax(acc.max_info, current_depth_info),
             center_info |-> IF is_center_point THEN current_depth_info
                             ELSE acc.center_info]

\* mutant: the planned-scale layer replaces the centre as the first loop does
ProcessL1PixelOverwrite(acc, is_center_point, read) ==
    ProcessFloodPixel(acc, is_center_point, read)

\* One iteration of the second loop of get_inundation_depth_from_gsi_tile
\* (the planned-scale layer): centre and maximum only move to a greater weight.
ProcessL1Pixel(acc, is_center_point, read) ==
    IF read = ReadFail
    THEN acc
    ELSE LET current_depth_info ==
                 ClassifyPixel(read, INUNDATION_COLOR_MAP, "shinsui_nashi")
         IN [max_info |-> UpdateMax(acc.max_info, current_depth_info),
             center_info |->
                 IF is_center_point
                    /\ current_depth_info.weight > acc.center_info.weight
                 THEN current_depth_info
                 ELSE acc.center_info]

\* the mutation of NeedsFallback: the precision is not asked
NeedsFallbackAnyPrecision(hp, max_depth_info) == max_depth_info.weight < 10

\* the condition under which the planned-scale layer is searched
NeedsFallback(hp, max_depth_info) == hp /\ max_depth_info.weight < 10

\* the 9 pixel offsets of the standard mode, centre first
pixel_offsets ==
    << <<0, 0>>, <<-1, -1>>, <<0, -1>>, <<1, -1>>, <<1, 0>>,
       <<1, 1>>, <<0, 1>>, <<-1, 1>>, <<-1, 0>> >>

\* mutant: only the upper edge of the tile is checked
OutOfTileUpperOnly(px, py) == px >= TILE_SIZE \/ py >= TILE_SIZE

\* the bounds check of the standard mode
OutOfTile(px, py) == px < 0 \/ px >= TILE_SIZE \/ py < 0 \/ py >= TILE_SIZE

\* mutant: no deduplication, one key per ring point
AllPointTiles(tiles, n) == [j \in 1..n |-> tiles[j]]

\* the keys of tiles_to_fetch in insertion order: the distinct tile addresses
\* of search_points[1..n], each at its first occurrence
RECURSIVE DistinctTiles(_, _)
DistinctTiles(tiles, n) ==
    IF n = 0 THEN << >>
    ELSE LET before == DistinctTiles(tiles, n - 1)
         IN IF \E k \in 1..Len(before) : before[k] = tiles[n]
            THEN before
            ELSE Append(before, tiles[n])

(***************************************************************************)
(* State of one raster sampling call: _get_max_info_from_tile (standard   *)
(* and high-precision mode) or get_inundation_depth_from_gsi_tile.         *)
(***************************************************************************)
VARIABLES
    pc,              \* position of the calling thread
    fn,              \* "tile_8", "tile_hp" or "flood": the function running
    layer,           \* key of TileLayers ("flood" for the flood function)
    high_precision,  \* the flag given to the flood function
    phase,           \* "l2": primary layer, "l1": planned-scale layer
    point_tiles,     \* tile address of search_points[1..n], centre first
    center_px,       \* pixel of the centre in its tile (standard mode)
    center_py,
    tile_keys,       \* keys of tiles_to_fetch in insertion order
    tiles_to_fetch,  \* tile address -> NoneVal or Img
    futures,         \* tile address -> state of its future
    k,               \* next key to submit
    c,               \* next key to collect
    i,               \* next point (or pixel offset) of the reduction loop
    max_info,
    center_info,
    result,          \* the dict returned: the two descriptions
    sampled,         \* history: weights of the classifications made
    center_read,     \* history: what reading the centre pixel gave, per phase
    dispatched,      \* history: tile addresses submitted in this phase
    merged,          \* history: the planned-scale layer was searched
    pre_merge,       \* history: max, centre and tiles when that search started
    pixels_read,     \* history: the pixels the standard-mode loop has read
    uniform          \* history: "unknown" / "transparent" while every point
                     \* so far was fetched and read as such a pixel

rasterVars ==
    << pc, fn, layer, high_precision, phase, point_tiles, center_px, center_py,
       tile_keys, tiles_to_fetch, futures, k, c, i, max_info, center_info,
       result, sampled, center_read, dispatched, merged, pre_merge,
       pixels_read, uniform >>

(***************************************************************************)
(* State of one large-fill-land query and of the process-wide index cache. *)
(***************************************************************************)
VARIABLES
    fill_pc,          \* position in the query
    queries,          \* queries started in this process
    pref_groups,      \* pref_code -> point indices, in ring order
    group_keys,       \* keys of pref_groups in insertion order
    pref_order,       \* the order in which prefectures are processed
    pref_idx,         \* position in pref_order
    points,           \* pref_groups[pref_code] of the prefecture processed
    ordered_points,   \* the same points, the centre first
    pt_idx,           \* position in ordered_points
    found_any,        \* the early-exit flag
    fill_max_info,
    fill_center_info,
    rtree_cache,      \* prefecture code -> the cached (index, features) pair
    rtree_pair,       \* the (rtree_idx, features) pair the query scans with
    builds,           \* history: codes whose index was built, in order
    load_failed,      \* history: codes whose load raised or returned nothing
    fill_result,      \* the dict returned
    tested,           \* history: points tested for containment, in order
    loaded,           \* history: prefectures whose dataset load was called
    found_at          \* history: the point that tested "ari", or -1

fillVars ==
    << fill_pc, queries, pref_groups, group_keys, pref_order, pref_idx, points,
       ordered_points, pt_idx, found_any, fill_max_info, fill_center_info,
       rtree_cache, rtree_pair, builds, load_failed, fill_result, tested,
       loaded, found_at >>

(***************************************************************************)
(* State of one get_selective_hazard_info call.                            *)
(***************************************************************************)
VARIABLES
    facade_pc,               \* the category block reached, "done" or "raised"
    ENABLE_LARGE_FILL_LAND,  \* the module flag read from the environment
    hazard_types,            \* the names requested, after the None default
    types_given,             \* FALSE when hazard_types was passed as None
    precision,               \* the high_precision argument
    tile_response,           \* how the tile server answers during the call
    tile_read,               \* what the pixels of its tiles read as
    hazard_info,             \* the report built so far: key -> entry
    called,                   \* history: the getters the call has invoked
    display_info     \* what format_all_hazard_info_for_display returned

facadeVars ==
    << facade_pc, ENABLE_LARGE_FILL_LAND, hazard_types, types_given,
       precision, tile_response, tile_read, hazard_info, called,
       display_info >>

(***************************************************************************)
(* State of one application of a display-formatting function.              *)
(***************************************************************************)
VARIABLES
    fmt_fn,      \* the function applied, "none" before the first
    fmt_args,    \* its arguments
    fmt_result   \* what it returned, or that it raised

formatVars == << fmt_fn, fmt_args, fmt_result >>

\* two threads of one process inside get_large_scale_filled_land_info_from_geojson
VARIABLES
    thread_pc,        \* thread -> "idle", "load", "check", "build", "store", "scan"
    thread_code,      \* thread -> the pref_code of its loop turn
    thread_pair,      \* thread -> its local (rtree_idx, features)
    thread_calls,     \* thread -> queries it has started
    thread_missed     \* thread -> its last check found the code missing

threadVars ==
    << thread_pc, thread_code, thread_pair, thread_calls, thread_missed >>

\* lambda_handler: the event, its locals, its answer
VARIABLES
    lambda_pc,            \* "idle", "method", "params", "validate", "route", "done"
    event,                \* the API Gateway event
    lambda_lat,
    lambda_lon,
    input_text,
    datum,
    lambda_hazard_types,  \* the handler's hazard_types
    lambda_precision,     \* the handler's precision
    lambda_response,      \* statusCode and the error of the body
    selective_calls       \* history: the calls of get_selective_hazard_info

lambdaVars ==
    << lambda_pc, event, lambda_lat, lambda_lon, input_text, datum,
       lambda_hazard_types, lambda_precision, lambda_response,
       selective_calls >>

\* one max-reduction over a colour table given by the caller
VARIABLES
    reduce_pc,         \* "idle", "loop", "done"
    reduce_mode,       \* "standard" (9 offsets) or "high" (ring points)
    reduce_color_map,  \* the color_map argument
    reduce_reads,      \* history: what each point read, in loop order
    reduce_acc         \* max_info and center_info

reduceVars ==
    << reduce_pc, reduce_mode, reduce_color_map, reduce_reads, reduce_acc >>

\* one ring call whose fetches start and end in every order: the executor
\* block and the loop of _get_max_info_from_tile_high_precision and of the
\* first layer of get_inundation_depth_from_gsi_tile
VARIABLES
    order_pc,           \* "idle", "submit", "collect", "join", "done"
    order_fn,           \* "tile_hp" or "flood"
    order_point_tiles,  \* tile address of search_points[1..n], centre first
    order_keys,         \* keys of tiles_to_fetch in insertion order
    order_futures,      \* tile address -> state of its future
    order_k,            \* next key to submit
    order_c,            \* next key to collect
    order_tiles,        \* tiles_to_fetch: tile address -> NoneVal or Img
    order_timed_out,    \* history: the addresses whose wait timed out
    order_finished,     \* history: the addresses in the order their fetches ended
    order_reads,        \* history: what getpixel holds for each ring point
    order_result        \* the returned mapping

orderVars ==
    << order_pc, order_fn, order_point_tiles, order_keys, order_futures,
       order_k, order_c, order_tiles, order_timed_out, order_finished,
       order_reads, order_result >>

\* one call of a parallel tile fetch over any number of addresses
VARIABLES
    pool_pc,
    pool_n,
    pool_futures,
    pool_k,
    pool_c,
    pool_tiles

poolVars ==
    << pool_pc, pool_n, pool_futures, pool_k, pool_c, pool_tiles >>

\* load_large_geojson and the files it keeps under /tmp
VARIABLES
    cache_pc,        \* "idle", "check", "download", "read", "returned"
    cache_key,       \* the key of the running call
    cache_file,      \* key -> "absent", "partial" or "complete": local_path
    cache_download,  \* history: "no", "ok" or "failed", of the running call
    cache_result,    \* "none", "dataset" or "raise"
    cache_calls,     \* calls made so far
    cache_done       \* history: keys whose download has succeeded

cacheVars ==
    << cache_pc, cache_key, cache_file, cache_download, cache_result,
       cache_calls, cache_done >>

\* one call of get_jshis_info
VARIABLES
    jshis_pc,
    jshis_data,
    jshis_result

jshisVars ==
    << jshis_pc, jshis_data, jshis_result >>

vars ==
    << rasterVars, fillVars, facadeVars, formatVars, threadVars, lambdaVars,
       reduceVars, orderVars, poolVars, cacheVars, jshisVars >>

\* what each part of the program leaves alone
notRasterVars ==
    << fillVars, facadeVars, formatVars, threadVars, lambdaVars, reduceVars,
       orderVars, poolVars, cacheVars, jshisVars >>

notFillVars ==
    << rasterVars, facadeVars, formatVars, threadVars, lambdaVars,
       reduceVars, orderVars, poolVars, cacheVars, jshisVars >>

notFacadeVars ==
    << rasterVars, fillVars, formatVars, threadVars, lambdaVars, reduceVars,
       orderVars, poolVars, cacheVars, jshisVars >>

notFormatVars ==
    << rasterVars, fillVars, facadeVars, threadVars, lambdaVars, reduceVars,
       orderVars, poolVars, cacheVars, jshisVars >>

\* the threads share rtree_cache and builds with the query
notThreadVars ==
    << rasterVars, facadeVars, formatVars, lambdaVars, reduceVars,
       orderVars, poolVars, cacheVars, jshisVars,
       fill_pc, queries, pref_groups, group_keys, pref_order, pref_idx, points,
       ordered_points, pt_idx, found_any, fill_max_info, fill_center_info,
       rtree_pair, load_failed, fill_result, tested, loaded, found_at >>

notLambdaVars ==
    << rasterVars, fillVars, facadeVars, formatVars, threadVars, reduceVars,
       orderVars, poolVars, cacheVars, jshisVars >>

notReduceVars ==
    << rasterVars, fillVars, facadeVars, formatVars, threadVars, lambdaVars,
       orderVars, poolVars, cacheVars, jshisVars >>

notOrderVars ==
    << rasterVars, fillVars, facadeVars, formatVars, threadVars, lambdaVars,
       reduceVars, poolVars, cacheVars, jshisVars >>

notPoolVars ==
    << rasterVars, fillVars, facadeVars, formatVars, threadVars, lambdaVars,
       reduceVars, orderVars, cacheVars, jshisVars >>

notCacheVars ==
    << rasterVars, fillVars, facadeVars, formatVars, threadVars, lambdaVars,
       reduceVars, orderVars, poolVars, jshisVars >>

notJshisVars ==
    << rasterVars, fillVars, facadeVars, formatVars, threadVars, lambdaVars,
       reduceVars, orderVars, poolVars, cacheVars >>

Tiles == 1..MaxTiles

NumPoints == 1 + RingPoints

\* pixel coordinates drawn for the centre in standard mode: both edges of
\* the tile and an inner pixel
CenterCoords == {0, 100, TILE_SIZE - 1}

NoFutures == [t \in {} |-> NoneVal]

\* the centre pixel was not read (tile absent, or the loop has not run)
NotRead == [rgb |-> << >>, a |-> -2]

NoResult == [max_info |-> "none", center_info |-> "none"]

FutureDone == {"img", "none", "exc"}

FuturePending == {"queued", "running", "hung"}

ColorMapOf(l) ==
    IF l = "flood" THEN INUNDATION_COLOR_MAP ELSE TileLayers[l].color_map

NoRiskOf(l) ==
    IF l = "flood" THEN "shinsui_nashi" ELSE TileLayers[l].no_risk_description

RasterInit ==
    /\ pc = "idle"
    /\ fn = "none"
    /\ layer = "none"
    /\ high_precision = FALSE
    /\ phase = "l2"
    /\ point_tiles = << >>
    /\ center_px = 0
    /\ center_py = 0
    /\ tile_keys = << >>
    /\ tiles_to_fetch = NoFutures
    /\ futures = NoFutures
    /\ k = 1
    /\ c = 1
    /\ i = 1
    /\ max_info = NoRiskInfo("none")
    /\ center_info = NoRiskInfo("none")
    /\ result = NoResult
    /\ sampled = {}
    /\ center_read = [l2 |-> NotRead, l1 |-> NotRead]
    /\ dispatched = << >>
    /\ merged = FALSE
    /\ pre_merge = [max_info |-> NoRiskInfo("none"),
                    center_info |-> NoRiskInfo("none"),
                    tiles |-> << >>]
    /\ uniform = "none"
    /\ pixels_read = << >>

\* what a read is: a failure, a table colour, a transparent pixel of no
\* table colour, or an opaque pixel of no table colour
ReadKind(read, color_map) ==
    IF read = ReadFail THEN "fail"
    ELSE IF read.rgb \in DOMAIN color_map THEN "mapped"
    ELSE IF read.a = 0 THEN "transparent" ELSE "unknown"

NextUniform(u, kind) ==
    IF kind \in {"transparent", "unknown"} /\ u \in {"none", kind}
    THEN kind ELSE "mixed"

(***************************************************************************)
(* The call and the standard mode (_get_max_info_from_tile_8_directions).  *)
(***************************************************************************)
\* _get_max_info_from_tile(..., high_precision = FALSE): the centre's tile
\* and pixel are computed; the ring is not used.
CallTile8(l, px, py) ==
    /\ pc = "idle"
    /\ pc' = "fetch"
    /\ fn' = "tile_8"
    /\ layer' = l
    /\ center_px' = px
    /\ center_py' = py
    /\ UNCHANGED << high_precision, phase, point_tiles, tile_keys,
                    tiles_to_fetch, futures, k, c, i, max_info, center_info,
                    result, sampled, center_read, dispatched, merged,
                    pre_merge, uniform,
                    pixels_read >>
    /\ UNCHANGED notRasterVars

\* img = _fetch_single_tile(tile_url, 3), called outside any try block; then
\* the early return when img is None, else the two initialisations.
FetchTile8(response) ==
    /\ pc = "fetch"
    /\ LET r == fetch_single_tile(response)
           no_risk == NoRiskOf(layer)
       IN CASE r.kind = "raise" ->
                  /\ pc' = "raised"
                  /\ UNCHANGED << result, max_info, center_info, i >>
            [] r.kind = "return" /\ r.value = NoneVal ->
                  /\ pc' = "done"
                  /\ result' = [max_info |-> no_risk, center_info |-> no_risk]
                  /\ UNCHANGED << max_info, center_info, i >>
            [] OTHER ->
                  /\ pc' = "reduce"
                  /\ max_info' = NoRiskInfo(no_risk)
                  /\ center_info' = NoRiskInfo(no_risk)
                  /\ i' = 1
                  /\ UNCHANGED result
    /\ UNCHANGED << fn, layer, high_precision, phase, point_tiles, center_px,
                    center_py, tile_keys, tiles_to_fetch, futures, k, c,
                    sampled, center_read, dispatched, merged, pre_merge, uniform,
                    pixels_read >>
    /\ UNCHANGED notRasterVars

\* one iteration of the loop over pixel_offsets
Pixel8(read) ==
    /\ pc = "reduce"
    /\ fn = "tile_8"
    /\ i <= Len(pixel_offsets)
    /\ LET px == center_px + pixel_offsets[i][1]
           py == center_py + pixel_offsets[i][2]
           acc == ProcessTilePixel(
                      [max_info |-> max_info, center_info |-> center_info],
                      i = 1, read, ColorMapOf(layer), NoRiskOf(layer))
       IN IF OutOfTile(px, py)
          THEN UNCHANGED << max_info, center_info, sampled, center_read,
                            uniform,
                    pixels_read >>
          ELSE /\ uniform' =
                     NextUniform(uniform, ReadKind(read, ColorMapOf(layer)))
               /\ pixels_read' = Append(pixels_read, <<px, py>>)
               /\ max_info' = acc.max_info
               /\ center_info' = acc.center_info
               /\ sampled' =
                     IF read = ReadFail THEN sampled
                     ELSE sampled \cup
                          {ClassifyPixel(read, ColorMapOf(layer),
                                         NoRiskOf(layer)).weight}
               /\ center_read' =
                     IF i = 1 THEN [center_read EXCEPT !.l2 = read]
                     ELSE center_read
    /\ i' = i + 1
    /\ UNCHANGED << pc, fn, layer, high_precision, phase, point_tiles,
                    center_px, center_py, tile_keys, tiles_to_fetch, futures,
                    k, c, result, dispatched, merged, pre_merge >>
    /\ UNCHANGED notRasterVars

\* the return statement after the loop
Return8 ==
    /\ pc = "reduce"
    /\ fn = "tile_8"
    /\ i > Len(pixel_offsets)
    /\ pc' = "done"
    /\ result' = [max_info |-> max_info.description,
                  center_info |-> center_info.description]
    /\ UNCHANGED << fn, layer, high_precision, phase, point_tiles, center_px,
                    center_py, tile_keys, tiles_to_fetch, futures, k, c, i,
                    max_info, center_info, sampled, center_read, dispatched,
                    merged, pre_merge, uniform,
                    pixels_read >>
    /\ UNCHANGED notRasterVars

(***************************************************************************)
(* The ring-based functions: _get_max_info_from_tile_high_precision and    *)
(* get_inundation_depth_from_gsi_tile.                                     *)
(***************************************************************************)
SeqRange(q) == {q[n] : n \in 1..Len(q)}

\* search_points is generated, every point is resolved to its tile, and
\* tiles_to_fetch gets one key, initially None, per distinct tile address.
CallRing(f, l, hp, tiles) ==
    /\ pc = "idle"
    /\ pc' = "submit"
    /\ fn' = f
    /\ layer' = l
    /\ high_precision' = hp
    /\ point_tiles' = tiles
    /\ tile_keys' = DistinctTiles(tiles, NumPoints)
    /\ tiles_to_fetch' = [t \in SeqRange(tile_keys') |-> NoneVal]
    /\ k' = 1
    /\ UNCHANGED << phase, center_px, center_py, futures, c, i, max_info,
                    center_info, result, sampled, center_read, dispatched,
                    merged, pre_merge, uniform,
                    pixels_read >>
    /\ UNCHANGED notRasterVars

CallTileHP(l, tiles) == CallRing("tile_hp", l, TRUE, tiles)

CallFlood(hp, tiles) == CallRing("flood", "flood", hp, tiles)

\* executor.submit(_fetch_single_tile, tile_url, 3) for the next key; after
\* the last key the calling thread starts collecting.
Submit ==
    /\ pc = "submit"
    /\ IF k <= Len(tile_keys)
       THEN /\ futures' = (tile_keys[k] :> "queued") @@ futures
            /\ dispatched' = Append(dispatched, tile_keys[k])
            /\ k' = k + 1
            /\ UNCHANGED << pc, c >>
       ELSE /\ pc' = "collect"
            /\ c' = 1
            /\ UNCHANGED << futures, dispatched, k >>
    /\ UNCHANGED << fn, layer, high_precision, phase, point_tiles, center_px,
                    center_py, tile_keys, tiles_to_fetch, i, max_info,
                    center_info, result, sampled, center_read, merged,
                    pre_merge, uniform,
                    pixels_read >>
    /\ UNCHANGED notRasterVars

Running == {t \in DOMAIN futures : futures[t] \in {"running", "hung"}}

\* a worker of ThreadPoolExecutor(max_workers=4) takes a queued fetch
FetchStart(t) ==
    /\ t \in DOMAIN futures
    /\ futures[t] = "queued"
    /\ Cardinality(Running) < MAX_WORKERS
    /\ futures' = [futures EXCEPT ![t] = "running"]
    /\ UNCHANGED << pc, fn, layer, high_precision, phase, point_tiles,
                    center_px, center_py, tile_keys, tiles_to_fetch, k, c, i,
                    max_info, center_info, result, sampled, center_read,
                    dispatched, merged, pre_merge, uniform,
                    pixels_read >>
    /\ UNCHANGED notRasterVars

\* the state a future gets from what _fetch_single_tile does in the worker
FutureOf(r) ==
    IF r.kind = "raise" THEN "exc"
    ELSE IF r.value = Img THEN "img" ELSE "none"

\* the worker's _fetch_single_tile ends: the future holds its value or its
\* exception
FetchEnd(t, response) ==
    /\ t \in DOMAIN futures
    /\ futures[t] = "running"
    /\ futures' = [futures EXCEPT ![t] = FutureOf(fetch_single_tile(response))]
    /\ UNCHANGED << pc, fn, layer, high_precision, phase, point_tiles,
                    center_px, center_py, tile_keys, tiles_to_fetch, k, c, i,
                    max_info, center_info, result, sampled, center_read,
                    dispatched, merged, pre_merge, uniform,
                    pixels_read >>
    /\ UNCHANGED notRasterVars

\* the environment: this fetch never completes (a server that keeps the
\* transfer alive without ever finishing it)
FetchHang(t) ==
    /\ t \in DOMAIN futures
    /\ futures[t] = "running"
    /\ futures' = [futures EXCEPT ![t] = "hung"]
    /\ UNCHANGED << pc, fn, layer, high_precision, phase, point_tiles,
                    center_px, center_py, tile_keys, tiles_to_fetch, k, c, i,
                    max_info, center_info, result, sampled, center_read,
                    dispatched, merged, pre_merge, uniform,
                    pixels_read >>
    /\ UNCHANGED notRasterVars

\* what future.result(timeout=5) inside try/except Exception stores: the
\* value of a finished future, None for one that raised, and None when the
\* wait times out on a future that is not finished
Collected(state) == IF state = "img" THEN Img ELSE NoneVal

\* one iteration of the collection loop, or (after the last key) its end
Collect ==
    /\ pc = "collect"
    /\ IF c <= Len(tile_keys)
       THEN /\ tiles_to_fetch' =
                  [tiles_to_fetch EXCEPT
                      ![tile_keys[c]] = Collected(futures[tile_keys[c]])]
            /\ c' = c + 1
            /\ UNCHANGED pc
       ELSE /\ pc' = "join"
            /\ UNCHANGED << tiles_to_fetch, c >>
    /\ UNCHANGED << fn, layer, high_precision, phase, point_tiles, center_px,
                    center_py, tile_keys, futures, k, i, max_info, center_info,
                    result, sampled, center_read, dispatched, merged,
                    pre_merge, uniform,
                    pixels_read >>
    /\ UNCHANGED notRasterVars

\* leaving the "with ThreadPoolExecutor(...)" block: Executor.__exit__ calls
\* shutdown(wait=True), which returns once every submitted fetch has ended.
\* Then (first loop only) max_info and center_info are initialised.  The
\* futures are not used after this point.
ExitExecutor ==
    /\ pc = "join"
    /\ \A t \in DOMAIN futures : futures[t] \in FutureDone
    /\ pc' = "reduce"
    /\ futures' = NoFutures
    /\ i' = 1
    /\ IF phase = "l2"
       THEN /\ max_info' = NoRiskInfo(NoRiskOf(layer))
            /\ center_info' = NoRiskInfo(NoRiskOf(layer))
       ELSE UNCHANGED << max_info, center_info >>
    /\ UNCHANGED << fn, layer, high_precision, phase, point_tiles, center_px,
                    center_py, tile_keys, tiles_to_fetch, k, c, result,
                    sampled, center_read, dispatched, merged, pre_merge, uniform,
                    pixels_read >>
    /\ UNCHANGED notRasterVars

\* the loop body of function f in phase ph on layer l
ProcessRingPixel(f, ph, l, acc, is_center_point, read) ==
    IF f = "flood"
    THEN IF ph = "l2"
         THEN ProcessFloodPixel(acc, is_center_point, read)
         ELSE ProcessL1Pixel(acc, is_center_point, read)
    ELSE ProcessTilePixel(acc, is_center_point, read,
                          ColorMapOf(l), NoRiskOf(l))

\* one iteration of the loop over search_points: a point whose tile is None
\* is skipped
PixelRing(read) ==
    /\ pc = "reduce"
    /\ fn \in {"tile_hp", "flood"}
    /\ i <= NumPoints
    /\ LET acc == ProcessRingPixel(fn, phase, layer,
                      [max_info |-> max_info, center_info |-> center_info],
                      i = 1, read)
       IN IF tiles_to_fetch[point_tiles[i]] = NoneVal
          THEN /\ uniform' = "mixed"
               /\ UNCHANGED << max_info, center_info, sampled, center_read >>
          ELSE /\ uniform' =
                     NextUniform(uniform, ReadKind(read, ColorMapOf(layer)))
               /\ max_info' = acc.max_info
               /\ center_info' = acc.center_info
               /\ sampled' =
                     IF read = ReadFail THEN sampled
                     ELSE sampled \cup
                          {ClassifyPixel(read, ColorMapOf(layer),
                                         NoRiskOf(layer)).weight}
               /\ center_read' =
                     IF i = 1 THEN [center_read EXCEPT ![phase] = read]
                     ELSE center_read
    /\ i' = i + 1
    /\ UNCHANGED << pc, fn, layer, high_precision, phase, point_tiles,
                    center_px, center_py, tile_keys, tiles_to_fetch, futures,
                    k, c, result, dispatched, merged, pre_merge,
                    pixels_read >>
    /\ UNCHANGED notRasterVars

\* after its first loop the flood function searches the planned-scale layer
\* when high precision was asked and the maximum weight is below 1
FallbackDue ==
    fn = "flood" /\ phase = "l2" /\ NeedsFallback(high_precision, max_info)

\* l1_tiles_to_fetch is built from the same search_points and a new executor
\* is entered
StartFallback ==
    /\ pc = "reduce"
    /\ fn = "flood"
    /\ i > NumPoints
    /\ FallbackDue
    /\ pc' = "submit"
    /\ phase' = "l1"
    /\ tile_keys' = DistinctTiles(point_tiles, NumPoints)
    /\ tiles_to_fetch' = [t \in SeqRange(tile_keys') |-> NoneVal]
    /\ k' = 1
    /\ dispatched' = << >>
    /\ merged' = TRUE
    /\ pre_merge' = [max_info |-> max_info, center_info |-> center_info,
                     tiles |-> dispatched]
    /\ UNCHANGED << fn, layer, high_precision, point_tiles, center_px,
                    center_py, futures, c, i, max_info, center_info, result,
                    sampled, center_read, uniform,
                    pixels_read >>
    /\ UNCHANGED notRasterVars

\* the return statement of the ring-based functions (the flood function
\* names the two fields max_depth and center_depth)
ReturnRing ==
    /\ pc = "reduce"
    /\ fn \in {"tile_hp", "flood"}
    /\ i > NumPoints
    /\ ~FallbackDue
    /\ pc' = "done"
    /\ result' = [max_info |-> max_info.description,
                  center_info |-> center_info.description]
    /\ UNCHANGED << fn, layer, high_precision, phase, point_tiles, center_px,
                    center_py, tile_keys, tiles_to_fetch, futures, k, c, i,
                    max_info, center_info, sampled, center_read, dispatched,
                    merged, pre_merge, uniform,
                    pixels_read >>
    /\ UNCHANGED notRasterVars

\* the layers drawn for a call of _get_max_info_from_tile: one per distinct
\* pair of colour table and no-risk description
SampledLayers == {"tsunami", "flood_keizoku", "landslide"}

\* the tile geometries drawn for a ring: every way the points can share
\* tiles, the tiles numbered in the order the ring first meets them
RingGeometries ==
    { tiles \in [1..NumPoints -> Tiles] :
          \A n \in 1..NumPoints :
              \/ tiles[n] = 1
              \/ \E m \in 1..(n - 1) : tiles[m] = tiles[n] - 1 }

RasterNext ==
    \/ \E l \in SampledLayers, px \in CenterCoords, py \in CenterCoords :
           CallTile8(l, px, py)
    \/ \E response \in Responses : FetchTile8(response)
    \/ \E read \in Reads : Pixel8(read)
    \/ Return8
    \/ \E l \in SampledLayers, tiles \in RingGeometries :
           CallTileHP(l, tiles)
    \/ \E hp \in BOOLEAN, tiles \in RingGeometries : CallFlood(hp, tiles)
    \/ Submit
    \/ \E t \in Tiles : FetchStart(t)
    \/ \E t \in Tiles, response \in Responses : FetchEnd(t, response)
    \/ \E t \in Tiles : FetchHang(t)
    \/ Collect
    \/ ExitExecutor
    \/ \E read \in Reads : PixelRing(read)
    \/ StartFallback
    \/ ReturnRing


(***************************************************************************)
(* Properties of the raster sampling call.                                 *)
(***************************************************************************)
\* the weight of the category a returned description names, in layer l
CategoryWeight(l, description) ==
    IF description = NoRiskOf(l) THEN 0
    ELSE IF description \in {"joho_nashi", "shori_shippai"} THEN -10
    ELSE LET key == CHOOSE key \in DOMAIN ColorMapOf(l) :
                        ColorMapOf(l)[key].description = description
         IN ColorMapOf(l)[key].weight

Returned == pc = "done"

PointTileSet == {point_tiles[n] : n \in 1..Len(point_tiles)}

AbsentTiles == {t \in DOMAIN tiles_to_fetch : tiles_to_fetch[t] = NoneVal}

\* C1: when a sampling call returns, the weight of the category reported as
\* the maximum is at least the weight of every point that was classified.
C1_MaxDominatesSamples ==
    Returned =>
        \A w \in sampled : CategoryWeight(layer, result.max_info) >= w

\* a flood call that merged the fallback layer, lost a tile, and classified
\* points of different weights, one of them positive
C1_Witness ==
    /\ Returned
    /\ fn = "flood"
    /\ merged
    /\ AbsentTiles /= {}
    /\ Cardinality(sampled) >= 2
    /\ \E w \in sampled : w > 0

\* C2: once the planned-scale layer is being merged, neither the maximum
\* nor the centre is ever below what it was before the merge, and the
\* result returned keeps that.
C2_MonotonicFallback ==
    merged =>
        /\ max_info.weight >= pre_merge.max_info.weight
        /\ center_info.weight >= pre_merge.center_info.weight
        /\ Returned =>
              /\ CategoryWeight(layer, result.max_info)
                     >= pre_merge.max_info.weight
              /\ CategoryWeight(layer, result.center_info)
                     >= pre_merge.center_info.weight

\* a merge that raised both the maximum and the centre although one
\* fallback tile was absent
C2_Witness ==
    /\ Returned
    /\ merged
    /\ AbsentTiles /= {}
    /\ max_info.weight > pre_merge.max_info.weight
    /\ center_info.weight > pre_merge.center_info.weight
    /\ pre_merge.center_info.weight > 0

\* what the first loop leaves as the centre, from what reading point 0 gave
PrimaryCentre ==
    LET read == center_read.l2
    IN IF read = NotRead THEN NoRiskInfo(NoRiskOf(layer))
       ELSE IF read = ReadFail
            THEN IF fn = "flood"
                 THEN [description |-> "shori_shippai", weight |-> -10]
                 ELSE NoRiskInfo(NoRiskOf(layer))
            ELSE ClassifyPixel(read, ColorMapOf(layer), NoRiskOf(layer))

\* the centre after the planned-scale layer, if it was merged, had its say
ExpectedCentre ==
    LET read == center_read.l1
        l1_info == ClassifyPixel(read, INUNDATION_COLOR_MAP, "shinsui_nashi")
    IN IF merged /\ read \in Pixels /\ l1_info.weight > PrimaryCentre.weight
       THEN l1_info
       ELSE PrimaryCentre

C5_FetcherNeverRaises ==
    /\ pc /= "raised"
    /\ \A t \in DOMAIN futures : futures[t] /= "exc"

NoDuplicates(q) == \A m, n \in 1..Len(q) : q[m] = q[n] => m = n

C8_NeverStuck ==
    fn = "tile_hp" => (Returned \/ ENABLED RasterNext)

\* C9: the unclassified category is not returned as the maximum when a
\* classified point has a positive weight.
C9_UnclassifiedNeverMax ==
    (Returned /\ \E w \in sampled : w > 0) => result.max_info /= "joho_nashi"

\* an unclassified point and a positive one were both classified
C9_Witness ==
    /\ Returned
    /\ -10 \in sampled
    /\ \E w \in sampled : w > 0
    /\ center_info.weight = -10

\* the loop of a ring-based function over points 1..n of a ring whose tiles
\* were all fetched and whose pixels all read as `read`
RECURSIVE RingLoop(_, _, _, _, _, _)
RingLoop(f, ph, l, acc, n, read) ==
    IF n = 0 THEN acc
    ELSE CHOOSE next \in
             { ProcessRingPixel(f, ph, l, prev, n = 1, read) :
                   prev \in {RingLoop(f, ph, l, acc, n - 1, read)} } : TRUE

\* the loop of the standard mode over offsets 1..n of a fetched tile whose
\* pixels all read as `read`
RECURSIVE OffsetLoop(_, _, _, _, _, _)
OffsetLoop(l, px, py, acc, n, read) ==
    IF n = 0 THEN acc
    ELSE CHOOSE next \in
             { IF OutOfTile(px + pixel_offsets[n][1],
                            py + pixel_offsets[n][2])
               THEN prev
               ELSE ProcessTilePixel(prev, n = 1, read, ColorMapOf(l),
                                     NoRiskOf(l)) :
                   prev \in {OffsetLoop(l, px, py, acc, n - 1, read)} } : TRUE

\* what the running call returns when every tile is fetched and every
\* sampled pixel, of the fallback layer too, reads as `read`
UniformResult(read) ==
    LET start == [max_info |-> NoRiskInfo(NoRiskOf(layer)),
                  center_info |-> NoRiskInfo(NoRiskOf(layer))]
        first == IF fn = "tile_8"
                 THEN OffsetLoop(layer, center_px, center_py, start,
                                 Len(pixel_offsets), read)
                 ELSE RingLoop(fn, "l2", layer, start, NumPoints, read)
        last == IF fn = "flood" /\ NeedsFallback(high_precision, first.max_info)
                THEN RingLoop(fn, "l1", layer, first, NumPoints, read)
                ELSE first
    IN [max_info |-> last.max_info.description,
        center_info |-> last.center_info.description]

TransparentPixel == [rgb |-> <<1, 2, 3>>, a |-> 0]

\* C10: a call whose sampled pixels were all fetched, opaque and of a colour
\* that is not in the layer's table returns something else than the same
\* call over all-transparent pixels returns (and a call that sampled only
\* transparent pixels returns exactly that).
C10_UnclassifiedDistinguishable ==
    Returned =>
        /\ uniform = "unknown" => result /= UniformResult(TransparentPixel)
        /\ uniform = "transparent" => result = UniformResult(TransparentPixel)

\* a high-precision flood call, fallback layer merged, that saw only opaque
\* pixels of unknown colour
C10_Witness ==
    /\ Returned
    /\ fn = "flood"
    /\ merged
    /\ uniform = "unknown"

(***************************************************************************)
(* get_large_scale_filled_land_info_from_geojson: the query over the       *)
(* polygon datasets, one per prefecture, with the process-wide             *)
(* _rtree_cache.  Ring points are numbered from 0 (the centre) as in the   *)
(* source.                                                                 *)
(***************************************************************************)
\* queries made in one process
MaxQueries == 2

\* prefecture codes the resolver may answer, besides None
PrefCodes == {"13", "14"}

PointIndices == 0..RingPoints

JohoNashi == [description |-> "joho_nashi", weight |-> 0]

Ari == [description |-> "ari", weight |-> 10]

\* features of one prefecture's dataset
FeaturesPerDataset == 2

\* _rtree_cache = {}
NoCache == [code \in {} |-> [code |-> "none", indexed |-> 0, features |-> 0]]

\* no pair held yet
NoPair == [code |-> "none", indexed |-> 0, features |-> 0]

\* idx = index.Index(); features = []
EmptyPair(code) == [code |-> code, indexed |-> 0, features |-> 0]

\* one turn of the loop of _build_rtree_index: idx.insert and features.append
InsertFeature(pair) ==
    [pair EXCEPT !.indexed = @ + 1, !.features = @ + 1]

\* the loop of _build_rtree_index has gone through the dataset
BuildDone(pair) == pair.indexed = FeaturesPerDataset

\* _build_rtree_index from a pair under construction
RECURSIVE BuildFrom(_)
BuildFrom(pair) ==
    IF BuildDone(pair) THEN pair ELSE BuildFrom(InsertFeature(pair))

build_rtree_index(code) == BuildFrom(EmptyPair(code))

\* the mutation of InCache: the cache is never consulted
NeverInCache(code, cache) == FALSE

\* "pref_code not in _rtree_cache", negated
InCache(code, cache) == code \in DOMAIN cache

\* _rtree_cache[pref_code] = (rtree_idx, features)
CachePut(cache, code, pair) ==
    [x \in DOMAIN cache \cup {code} |-> IF x = code THEN pair ELSE cache[x]]

FillInit ==
    /\ fill_pc = "idle"
    /\ queries = 0
    /\ pref_groups = [code \in {} |-> << >>]
    /\ group_keys = << >>
    /\ pref_order = << >>
    /\ pref_idx = 1
    /\ points = << >>
    /\ ordered_points = << >>
    /\ pt_idx = 1
    /\ found_any = FALSE
    /\ fill_max_info = JohoNashi
    /\ fill_center_info = JohoNashi
    /\ rtree_cache = NoCache
    /\ rtree_pair = NoPair
    /\ builds = << >>
    /\ load_failed = {}
    /\ fill_result = NoResult
    /\ tested = << >>
    /\ loaded = << >>
    /\ found_at = -1

\* the keys of pref_groups in insertion order: the distinct codes of points
\* 0..n, each at its first occurrence
RECURSIVE GroupKeys(_, _)
GroupKeys(codes, n) ==
    IF n < 0 THEN << >>
    ELSE LET before == GroupKeys(codes, n - 1)
         IN IF \E m \in 1..Len(before) : before[m] = codes[n]
            THEN before
            ELSE Append(before, codes[n])

\* the points of 0..n whose code is `code`, in ring order
RECURSIVE GroupOf(_, _, _)
GroupOf(codes, code, n) ==
    IF n < 0 THEN << >>
    ELSE IF codes[n] = code
         THEN Append(GroupOf(codes, code, n - 1), n)
         ELSE GroupOf(codes, code, n - 1)

\* q without the elements that fail / pass the test "is the centre"
RECURSIVE Centres(_)
Centres(q) ==
    IF q = << >> THEN << >>
    ELSE IF Head(q) = 0 THEN <<0>> \o Centres(Tail(q)) ELSE Centres(Tail(q))

RECURSIVE Others(_)
Others(q) ==
    IF q = << >> THEN << >>
    ELSE IF Head(q) /= 0 THEN <<Head(q)>> \o Others(Tail(q))
         ELSE Others(Tail(q))

RECURSIVE Without(_, _)
Without(q, x) ==
    IF q = << >> THEN << >>
    ELSE IF Head(q) /= x THEN <<Head(q)>> \o Without(Tail(q), x)
         ELSE Without(Tail(q), x)

\* pref_order: the centre's prefecture, then the other keys of pref_groups
PrefOrder(center_pref_code, keys) ==
    <<center_pref_code>> \o Without(keys, center_pref_code)

\* the query starts: the resolver answers codes[n] for point n while the
\* groups are built, and center_pref_code when asked again for the centre
CallFill(codes, center_pref_code) ==
    /\ fill_pc \in {"idle", "done", "raised"}
    /\ queries < MaxQueries
    /\ queries' = queries + 1
    /\ group_keys' = GroupKeys(codes, RingPoints)
    /\ pref_groups' = [code \in {codes[n] : n \in PointIndices} |->
                          GroupOf(codes, code, RingPoints)]
    /\ pref_order' = PrefOrder(center_pref_code, GroupKeys(codes, RingPoints))
    /\ pref_idx' = 1
    /\ points' = << >>
    /\ ordered_points' = << >>
    /\ pt_idx' = 1
    /\ found_any' = FALSE
    /\ fill_max_info' = JohoNashi
    /\ fill_center_info' = JohoNashi
    /\ fill_result' = NoResult
    /\ tested' = << >>
    /\ loaded' = << >>
    /\ found_at' = -1
    /\ fill_pc' = "pref"
    /\ rtree_pair' = NoPair
    /\ load_failed' = {}
    /\ UNCHANGED << rtree_cache, builds >>
    /\ UNCHANGED notFillVars

\* the mutation of EarlyExit: the loops never stop early
NeverExit(found) == FALSE

\* "if found_any: break", at the head of both loops and after each point
EarlyExit(found) == found

\* the head of the loop over pref_order, and the return after it; a code that
\* is no key of pref_groups makes the subscript raise KeyError out of the
\* function
NextPref ==
    /\ fill_pc = "pref"
    /\ IF pref_idx > Len(pref_order) \/ EarlyExit(found_any)
       THEN /\ fill_pc' = "done"
            /\ fill_result' = [max_info |-> fill_max_info.description,
                               center_info |-> fill_center_info.description]
            /\ UNCHANGED points
       ELSE IF pref_order[pref_idx] \notin DOMAIN pref_groups
            THEN /\ fill_pc' = "raised"
                 /\ UNCHANGED << points, fill_result >>
            ELSE /\ fill_pc' = "load"
                 /\ points' = pref_groups[pref_order[pref_idx]]
                 /\ UNCHANGED fill_result
    /\ UNCHANGED << queries, pref_groups, group_keys, pref_order, pref_idx,
                    ordered_points, pt_idx, found_any, fill_max_info,
                    fill_center_info, rtree_cache, rtree_pair, builds,
                    load_failed, tested, loaded, found_at >>
    /\ UNCHANGED notFillVars

\* the except branch: the centre is reset when it belongs to this prefecture
CenterAfterError(center, pts) ==
    IF \E m \in 1..Len(pts) : pts[m] = 0 THEN JohoNashi ELSE center

\* the mutation of NextTurn: a failed load ends the loop over pref_order
LastTurn(idx) == Len(pref_order) + 1

\* "continue", and the fall out of the except branch: the loop over pref_order
\* goes on with the next prefecture
NextTurn(idx) == idx + 1

\* load_large_geojson raises, returns nothing, returns a dataset, or returns
\* a dataset _build_rtree_index cannot index (no "features", a bad geometry)
LoadOutcomes == {"ok", "raise", "empty", "malformed"}

\* load_large_geojson, then the index from the cache or built and cached
LoadPref(outcome) ==
    /\ fill_pc = "load"
    /\ pref_order[pref_idx] = NoneVal => outcome = "raise"
    /\ loaded' = Append(loaded, pref_order[pref_idx])
    /\ load_failed' = IF outcome \in {"raise", "empty"}
                      THEN load_failed \cup {pref_order[pref_idx]}
                      ELSE load_failed
    /\ LET pref_code == pref_order[pref_idx]
           hit == InCache(pref_code, rtree_cache)
       IN CASE outcome = "raise" \/ (outcome = "malformed" /\ ~hit) ->
                 /\ fill_center_info' =
                        CenterAfterError(fill_center_info, points)
                 /\ pref_idx' = NextTurn(pref_idx)
                 /\ fill_pc' = "pref"
                 /\ UNCHANGED << rtree_cache, rtree_pair, builds,
                                 ordered_points, pt_idx >>
            [] outcome = "empty" ->
                 /\ pref_idx' = NextTurn(pref_idx)
                 /\ fill_pc' = "pref"
                 /\ UNCHANGED << fill_center_info, rtree_cache, rtree_pair,
                                 builds, ordered_points, pt_idx >>
            [] OTHER ->
                 /\ IF hit
                    THEN /\ rtree_pair' = rtree_cache[pref_code]
                         /\ UNCHANGED << rtree_cache, builds >>
                    ELSE /\ rtree_pair' = build_rtree_index(pref_code)
                         /\ rtree_cache' =
                                CachePut(rtree_cache, pref_code,
                                         build_rtree_index(pref_code))
                         /\ builds' = Append(builds, pref_code)
                 /\ ordered_points' = Centres(points) \o Others(points)
                 /\ pt_idx' = 1
                 /\ fill_pc' = "scan"
                 /\ UNCHANGED << fill_center_info, pref_idx >>
    /\ UNCHANGED << queries, pref_groups, group_keys, pref_order, points,
                    found_any, fill_max_info, tested,
                    found_at, fill_result >>
    /\ UNCHANGED notFillVars

SearchOutcomes == {"inside", "outside", "raise"}

\* one turn of the loop over ordered_points: _search_with_rtree answers
\* `outcome` for the point
ScanPoint(outcome) ==
    /\ fill_pc = "scan"
    /\ IF pt_idx > Len(ordered_points) \/ EarlyExit(found_any)
       THEN /\ outcome = "outside"
            /\ pref_idx' = pref_idx + 1
            /\ fill_pc' = "pref"
            /\ UNCHANGED << pt_idx, found_any, fill_max_info,
                            fill_center_info, tested, found_at >>
       ELSE LET point == ordered_points[pt_idx]
                current_info == IF outcome = "inside" THEN Ari ELSE JohoNashi
                found == found_any \/ outcome = "inside"
            IN /\ tested' = Append(tested, point)
               /\ IF outcome = "raise"
                  THEN /\ fill_center_info' =
                              CenterAfterError(fill_center_info, points)
                       /\ pref_idx' = pref_idx + 1
                       /\ fill_pc' = "pref"
                       /\ UNCHANGED << pt_idx, found_any, fill_max_info,
                                       found_at >>
                  ELSE /\ found_any' = found
                       /\ found_at' = IF outcome = "inside" /\ found_at = -1
                                      THEN point ELSE found_at
                       /\ fill_center_info' = IF point = 0 THEN current_info
                                              ELSE fill_center_info
                       /\ fill_max_info' = UpdateMax(fill_max_info,
                                                     current_info)
                       /\ IF EarlyExit(found)
                          THEN /\ pref_idx' = pref_idx + 1
                               /\ fill_pc' = "pref"
                               /\ UNCHANGED pt_idx
                          ELSE /\ pt_idx' = pt_idx + 1
                               /\ UNCHANGED << pref_idx, fill_pc >>
    /\ UNCHANGED << queries, pref_groups, group_keys, pref_order, points,
                    ordered_points, rtree_cache, rtree_pair, builds,
                    load_failed, fill_result, loaded >>
    /\ UNCHANGED notFillVars

ResolverCodes == PrefCodes \cup {NoneVal}

FillNext ==
    \/ \E codes \in [PointIndices -> ResolverCodes],
          center_pref_code \in ResolverCodes :
            CallFill(codes, center_pref_code)
    \/ NextPref
    \/ \E outcome \in LoadOutcomes : LoadPref(outcome)
    \/ \E outcome \in SearchOutcomes : ScanPoint(outcome)

(***************************************************************************)
(* get_selective_hazard_info: the category blocks in source order.  During *)
(* one call the tile server answers every tile request the same way and    *)
(* every pixel of its tiles reads the same; the probability API and the    *)
(* polygon datasets answer independently, per point.                       *)
(***************************************************************************)
Categories ==
    << "earthquake", "flood", "flood_keizoku", "tsunami", "high_tide",
       "large_fill_land", "landslide" >>

\* names a caller may pass: the seven categories and one the blocks ignore
RequestNames == SeqRange(Categories) \cup {"kaokutoukai_hanran"}

\* pixels the tiles of one call may consist of
FacadeReads ==
    { TransparentPixel, [rgb |-> <<1, 2, 3>>, a |-> 255],
      [rgb |-> <<255, 153, 0>>, a |-> 255], ReadFail }

\* what _fetch_jshis_data returns for one point: the two probabilities in
\* percent, -1 standing for None (no value, or a failed request)
JshisData ==
    { [prob_50 |-> -1, prob_60 |-> -1], [prob_50 |-> 26, prob_60 |-> -1],
      [prob_50 |-> 80, prob_60 |-> 30] }

Descriptions(acc) ==
    [max_info |-> acc.max_info.description,
     center_info |-> acc.center_info.description]

StartOf(l) ==
    [max_info |-> NoRiskInfo(NoRiskOf(l)),
     center_info |-> NoRiskInfo(NoRiskOf(l))]

\* _get_max_info_from_tile on layer l: the standard mode fetches the one
\* tile in the calling thread, the high-precision mode through futures
get_max_info_from_tile(l, hp, response, read) ==
    LET fetched == fetch_single_tile(response)
    IN IF hp
       THEN [kind |-> "return",
             value |->
                 IF Collected(FutureOf(fetched)) = NoneVal
                 THEN Descriptions(StartOf(l))
                 ELSE Descriptions(RingLoop("tile_hp", "l2", l, StartOf(l),
                                            NumPoints, read))]
       ELSE IF fetched.kind = "raise"
            THEN [kind |-> "raise", value |-> NoResult]
            ELSE IF fetched.value = NoneVal
                 THEN [kind |-> "return", value |-> Descriptions(StartOf(l))]
                 ELSE [kind |-> "return",
                       value |-> Descriptions(
                           OffsetLoop(l, 100, 100, StartOf(l),
                                      Len(pixel_offsets), read))]

\* get_inundation_depth_from_gsi_tile: both modes fetch through futures
get_inundation_depth_from_gsi_tile(hp, response, read) ==
    LET tile == Collected(FutureOf(fetch_single_tile(response)))
        first == IF tile = NoneVal THEN StartOf("flood")
                 ELSE RingLoop("flood", "l2", "flood", StartOf("flood"),
                               NumPoints, read)
        last == IF NeedsFallback(hp, first.max_info) /\ tile /= NoneVal
                THEN RingLoop("flood", "l1", "flood", first, NumPoints, read)
                ELSE first
    IN [max_depth |-> last.max_info.description,
        center_depth |-> last.center_info.description]

\* get_jshis_info over the answers data[0..n] of the points, centre first
RECURSIVE JshisLoop(_, _)
JshisLoop(data, n) ==
    IF n < 0
    THEN [max_prob_50 |-> -1, center_prob_50 |-> -1,
          max_prob_60 |-> -1, center_prob_60 |-> -1]
    ELSE LET d == data[n]
             Max(x, y) == IF x > y THEN x ELSE y
         IN CHOOSE next \in
                { [max_prob_50 |-> IF d.prob_50 /= -1
                                   THEN Max(acc.max_prob_50, d.prob_50)
                                   ELSE acc.max_prob_50,
                   center_prob_50 |-> IF d.prob_50 /= -1 /\ n = 0
                                      THEN d.prob_50 ELSE acc.center_prob_50,
                   max_prob_60 |-> IF d.prob_60 /= -1
                                   THEN Max(acc.max_prob_60, d.prob_60)
                                   ELSE acc.max_prob_60,
                   center_prob_60 |-> IF d.prob_60 /= -1 /\ n = 0
                                      THEN d.prob_60 ELSE acc.center_prob_60] :
                      acc \in {JshisLoop(data, n - 1)} } : TRUE

get_jshis_info(data) == JshisLoop(data, RingPoints)

\* get_large_scale_filled_land_info_from_geojson for a ring that lies in one
\* prefecture: the dataset loads as `load`, the centre / some other point is
\* inside a polygon
get_large_scale_filled_land_info(load, center_inside, other_inside) ==
    IF load = "ok" /\ center_inside
    THEN [max_info |-> "ari", center_info |-> "ari"]
    ELSE IF load = "ok" /\ other_inside
         THEN [max_info |-> "ari", center_info |-> "joho_nashi"]
         ELSE [max_info |-> "joho_nashi", center_info |-> "joho_nashi"]

NoReport == [key \in {} |-> NoResult]

\* hazard_info[key] = entry
Put(info, key, entry) ==
    [x \in DOMAIN info \cup {key} |-> IF x = key THEN entry ELSE info[x]]

\* nothing was formatted yet
NoDisplay == [key \in {} |-> ""]

FacadeInit ==
    /\ facade_pc = "idle"
    /\ ENABLE_LARGE_FILL_LAND \in BOOLEAN
    /\ hazard_types = {}
    /\ types_given = TRUE
    /\ precision = FALSE
    /\ tile_response = "image"
    /\ tile_read = TransparentPixel
    /\ hazard_info = NoReport
    /\ called = {}
    /\ display_info = NoDisplay

\* the call: hazard_types None selects the seven categories
CallFacade(types, given, hp, response, read) ==
    /\ facade_pc = "idle"
    /\ ~given => types = {}
    /\ response /= "image" => read = TransparentPixel
    /\ hazard_types' = IF given THEN types ELSE SeqRange(Categories)
    /\ types_given' = given
    /\ precision' = hp
    /\ tile_response' = response
    /\ tile_read' = read
    /\ hazard_info' = NoReport
    /\ called' = {}
    /\ facade_pc' = Categories[1]
    /\ UNCHANGED << ENABLE_LARGE_FILL_LAND, display_info >>
    /\ UNCHANGED notFacadeVars

\* the block after block `name`, or the return
AfterBlock(name) ==
    IF \E n \in 1..(Len(Categories) - 1) : Categories[n] = name
    THEN Categories[(CHOOSE n \in 1..Len(Categories) : Categories[n] = name) + 1]
    ELSE "done"

FacadeFrame ==
    UNCHANGED << ENABLE_LARGE_FILL_LAND, hazard_types, types_given, precision,
                 tile_response, tile_read, display_info >>

\* the mutation of Requested: every block runs
RequestedAlways(name) == TRUE

\* the test at the head of each block
Requested(name) == name \in hazard_types

\* the getters invoked so far, after a block that invokes `getters`
Calls(name, getters) ==
    IF Requested(name) THEN called \cup getters ELSE called

\* one block: skipped when its name was not requested; otherwise the getters
\* run and either one of them raises out of the call or the entry is stored
Block(name, key, outcome) ==
    IF ~Requested(name)
    THEN [pc |-> AfterBlock(name), info |-> hazard_info]
    ELSE IF outcome.kind = "raise"
         THEN [pc |-> "raised", info |-> hazard_info]
         ELSE [pc |-> AfterBlock(name),
               info |-> Put(hazard_info, key, outcome.value)]

BlockEarthquake(data) ==
    /\ facade_pc = "earthquake"
    /\ FacadeFrame
    /\ facade_pc' = AfterBlock("earthquake")
    /\ called' = Calls("earthquake", {"get_jshis_info"})
    /\ IF ~Requested("earthquake")
       THEN /\ data = [n \in PointIndices |-> [prob_50 |-> -1, prob_60 |-> -1]]
            /\ UNCHANGED hazard_info
       ELSE LET jshis_info == get_jshis_info(data)
            IN hazard_info' =
                 Put(Put(hazard_info, "jshis_prob_50",
                         [max_prob |-> jshis_info.max_prob_50,
                          center_prob |-> jshis_info.center_prob_50]),
                     "jshis_prob_60",
                     [max_prob |-> jshis_info.max_prob_60,
                      center_prob |-> jshis_info.center_prob_60])
    /\ UNCHANGED notFacadeVars

BlockFlood ==
    /\ facade_pc = "flood"
    /\ FacadeFrame
    /\ called' = Calls("flood", {"get_inundation_depth_from_gsi_tile"})
    /\ LET inundation_info == get_inundation_depth_from_gsi_tile(
                                  precision, tile_response, tile_read)
           b == Block("flood", "inundation_depth",
                      [kind |-> "return",
                       value |-> [max_info |-> inundation_info.max_depth,
                                  center_info |->
                                      inundation_info.center_depth]])
       IN facade_pc' = b.pc /\ hazard_info' = b.info
    /\ UNCHANGED notFacadeVars

BlockFloodKeizoku ==
    /\ facade_pc = "flood_keizoku"
    /\ FacadeFrame
    /\ called' = Calls("flood_keizoku", {"get_flood_keizoku_info_from_gsi_tile"})
    /\ LET b == Block("flood_keizoku", "flood_keizoku",
                      get_max_info_from_tile("flood_keizoku", precision,
                                             tile_response, tile_read))
       IN facade_pc' = b.pc /\ hazard_info' = b.info
    /\ UNCHANGED notFacadeVars

BlockTsunami ==
    /\ facade_pc = "tsunami"
    /\ FacadeFrame
    /\ called' = Calls("tsunami", {"get_tsunami_inundation_info_from_gsi_tile"})
    /\ LET b == Block("tsunami", "tsunami_inundation",
                      get_max_info_from_tile("tsunami", precision,
                                             tile_response, tile_read))
       IN facade_pc' = b.pc /\ hazard_info' = b.info
    /\ UNCHANGED notFacadeVars

BlockHighTide ==
    /\ facade_pc = "high_tide"
    /\ FacadeFrame
    /\ called' = Calls("high_tide", {"get_high_tide_inundation_info_from_gsi_tile"})
    /\ LET b == Block("high_tide", "hightide_inundation",
                      get_max_info_from_tile("high_tide", precision,
                                             tile_response, tile_read))
       IN facade_pc' = b.pc /\ hazard_info' = b.info
    /\ UNCHANGED notFacadeVars

BlockLargeFillLand(load, center_inside, other_inside) ==
    /\ facade_pc = "large_fill_land"
    /\ FacadeFrame
    /\ called' = Calls("large_fill_land",
                      IF ENABLE_LARGE_FILL_LAND
                      THEN {"get_large_scale_filled_land_info_from_geojson"}
                      ELSE {})
    /\ ~Requested("large_fill_land") \/ ~ENABLE_LARGE_FILL_LAND
          => load = "ok" /\ center_inside /\ other_inside
    /\ LET b == Block("large_fill_land", "large_fill_land",
                      [kind |-> "return",
                       value |->
                           IF ENABLE_LARGE_FILL_LAND
                           THEN get_large_scale_filled_land_info(
                                    load, center_inside, other_inside)
                           ELSE [max_info |-> "muko",
                                 center_info |-> "muko"]])
       IN facade_pc' = b.pc /\ hazard_info' = b.info
    /\ UNCHANGED notFacadeVars

BlockLandslide ==
    /\ facade_pc = "landslide"
    /\ FacadeFrame
    /\ LET debris_flow_info == get_max_info_from_tile(
                                   "debris_flow", precision, tile_response,
                                   tile_read)
           steep_slope_info == get_max_info_from_tile(
                                   "steep_slope", precision, tile_response,
                                   tile_read)
           landslide_info == get_max_info_from_tile(
                                 "landslide", precision, tile_response,
                                 tile_read)
           b == Block("landslide", "landslide_hazard",
                      IF \E g \in {debris_flow_info, steep_slope_info,
                                   landslide_info} : g.kind = "raise"
                      THEN [kind |-> "raise", value |-> NoResult]
                      ELSE [kind |-> "return",
                            value |->
                                [debris_flow |-> debris_flow_info.value,
                                 steep_slope |-> steep_slope_info.value,
                                 landslide |-> landslide_info.value]])
           getters ==
               {"get_debris_flow_info_from_gsi_tile"} \cup
               (IF debris_flow_info.kind = "raise" THEN {}
                ELSE {"get_steep_slope_info_from_gsi_tile"} \cup
                     (IF steep_slope_info.kind = "raise" THEN {}
                      ELSE {"get_landslide_info_from_gsi_tile"}))
       IN /\ facade_pc' = b.pc
          /\ hazard_info' = b.info
          /\ called' = Calls("landslide", getters)
    /\ UNCHANGED notFacadeVars

FacadeNext ==
    \/ /\ facade_pc = "idle"
       /\ \E types \in SUBSET RequestNames, given \in BOOLEAN,
             hp \in BOOLEAN, response \in Responses, read \in FacadeReads :
               CallFacade(types, given, hp, response, read)
    \/ \E data \in [PointIndices -> JshisData] : BlockEarthquake(data)
    \/ BlockFlood
    \/ BlockFloodKeizoku
    \/ BlockTsunami
    \/ BlockHighTide
    \/ \E load \in LoadOutcomes, center_inside \in BOOLEAN,
          other_inside \in BOOLEAN :
            BlockLargeFillLand(load, center_inside, other_inside)
    \/ BlockLandslide

(***************************************************************************)
(* Properties of the large-fill-land query.                                *)
(***************************************************************************)
\* C4: once a point of the query has tested "ari", the query tests no
\* further point and loads no further prefecture; it returns "ari" as the
\* maximum, and "ari" as the centre exactly when the centre was that point.
C4_EarlyExitOnFirstHit ==
    /\ [](fill_pc = "done" /\ found_any =>
              /\ fill_result.max_info = "ari"
              /\ fill_result.center_info = "ari" <=> found_at = 0)
    /\ [][found_any /\ queries' = queries =>
              tested' = tested /\ loaded' = loaded]_vars

\* a query that returned after a hit on a point other than the centre,
\* leaving a prefecture of the ring unprocessed
C4_Witness ==
    /\ fill_pc = "done"
    /\ found_any
    /\ found_at > 0
    /\ pref_idx <= Len(pref_order)
    /\ pref_order[pref_idx] \in DOMAIN pref_groups
    /\ \E n \in PointIndices : \A m \in 1..Len(tested) : tested[m] /= n

(***************************************************************************)
(* Properties of get_selective_hazard_info.                                *)
(***************************************************************************)
\* the keys each category block stores
CategoryKeys ==
    ("earthquake" :> {"jshis_prob_50", "jshis_prob_60"}) @@
    ("flood" :> {"inundation_depth"}) @@
    ("flood_keizoku" :> {"flood_keizoku"}) @@
    ("tsunami" :> {"tsunami_inundation"}) @@
    ("high_tide" :> {"hightide_inundation"}) @@
    ("large_fill_land" :> {"large_fill_land"}) @@
    ("landslide" :> {"landslide_hazard"})

InfoFields == {"max_info", "center_info"}

\* the entry under `key` has its maximum and its centre field, in each of
\* its layers
WellFormed(key, entry) ==
    IF key \in {"jshis_prob_50", "jshis_prob_60"}
    THEN DOMAIN entry = {"max_prob", "center_prob"}
    ELSE IF key = "landslide_hazard"
         THEN /\ DOMAIN entry = {"debris_flow", "steep_slope", "landslide"}
              /\ \A sub \in DOMAIN entry :
                     /\ DOMAIN entry[sub] = InfoFields
                     /\ \A fld \in InfoFields : entry[sub][fld] /= "none"
         ELSE /\ DOMAIN entry = InfoFields
              /\ \A fld \in InfoFields : entry[fld] /= "none"

\* every requested category has its well-formed entries in the report
ReportComplete ==
    \A name \in hazard_types \cap DOMAIN CategoryKeys :
        \A key \in CategoryKeys[name] :
            /\ key \in DOMAIN hazard_info
            /\ WellFormed(key, hazard_info[key])

\* C6: whatever the tile server answers, whatever the pixels read as,
\* whatever the probability API and the dataset load do, in both modes, no
\* exception leaves get_selective_hazard_info and the report it returns
\* holds a well-formed entry for every requested category.
C6_NeverRaisesWellFormed ==
    /\ facade_pc /= "raised"
    /\ facade_pc = "done" => ReportComplete

\* the part of C6 about the calls that do return
C6_ReturnedReportComplete == facade_pc = "done" => ReportComplete

\* the getters each category block invokes
CategoryGetters ==
    ("earthquake" :> {"get_jshis_info"}) @@
    ("flood" :> {"get_inundation_depth_from_gsi_tile"}) @@
    ("flood_keizoku" :> {"get_flood_keizoku_info_from_gsi_tile"}) @@
    ("tsunami" :> {"get_tsunami_inundation_info_from_gsi_tile"}) @@
    ("high_tide" :> {"get_high_tide_inundation_info_from_gsi_tile"}) @@
    ("large_fill_land" :> {"get_large_scale_filled_land_info_from_geojson"}) @@
    ("landslide" :> {"get_debris_flow_info_from_gsi_tile",
                     "get_steep_slope_info_from_gsi_tile",
                     "get_landslide_info_from_gsi_tile"})

RequestedKnown == hazard_types \cap DOMAIN CategoryKeys

RequestedKeys == UNION {CategoryKeys[name] : name \in RequestedKnown}

\* C11: the call invokes no getter and stores no entry of a category that
\* was not requested; the report it returns has the entries of exactly the
\* requested known categories, so an unknown name adds no entry and causes
\* no error and an empty list gives an empty report; None stands for the
\* seven categories.
C11_ExactlyRequested ==
    /\ called \subseteq UNION {CategoryGetters[name] : name \in RequestedKnown}
    /\ DOMAIN hazard_info \subseteq RequestedKeys
    /\ facade_pc = "done" => DOMAIN hazard_info = RequestedKeys
    /\ RequestedKnown = {} => facade_pc /= "raised"
    /\ facade_pc /= "idle" /\ ~types_given =>
           hazard_types = SeqRange(Categories)

\* a returned call that was given an unknown name and some, not all,
\* categories
C11_Witness ==
    /\ facade_pc = "done"
    /\ types_given
    /\ "kaokutoukai_hanran" \in hazard_types
    /\ "flood" \in hazard_types
    /\ "landslide" \in hazard_types
    /\ "tsunami" \notin hazard_types
    /\ called /= {}

(***************************************************************************)
(* The display-formatting functions.                                       *)
(***************************************************************************)
FormatInit ==
    /\ fmt_fn = "none"
    /\ fmt_args = [none |-> TRUE]
    /\ fmt_result = [kind |-> "none", value |-> ""]

\* values handed to _format_hazard_output_string: None or a string
DisplayValues == {NoneVal, "deta_nashi", "shinsui_nashi", "10m", "5m"}

NoDataStrings == {"deta_nashi", "shinsui_nashi", "gaito_nashi"}

\* the mutation of format_hazard_output_string: one absent value is enough
\* for the short form
FormatHazardEitherAbsent(max_val, center_val, no_data_str) ==
    LET max_val_display == IF max_val /= NoneVal THEN max_val ELSE no_data_str
        center_val_display ==
            IF center_val /= NoneVal THEN center_val ELSE no_data_str
    IN IF max_val_display = no_data_str \/ center_val_display = no_data_str
       THEN no_data_str
       ELSE " shuhen_100m_no_saidai: " \o max_val_display
                \o "\n chushinten: " \o center_val_display

\* _format_hazard_output_string
format_hazard_output_string(max_val, center_val, no_data_str) ==
    LET max_val_display == IF max_val /= NoneVal THEN max_val ELSE no_data_str
        center_val_display ==
            IF center_val /= NoneVal THEN center_val ELSE no_data_str
    IN IF max_val_display = no_data_str /\ center_val_display = no_data_str
       THEN no_data_str
       ELSE " shuhen_100m_no_saidai: " \o max_val_display
                \o "\n chushinten: " \o center_val_display

FormatHazardOutputString(max_val, center_val, no_data_str) ==
    /\ fmt_fn' = "format_hazard_output_string"
    /\ fmt_args' = [max_val |-> max_val, center_val |-> center_val,
                    no_data_str |-> no_data_str]
    /\ fmt_result' =
           [kind |-> "return",
            value |-> format_hazard_output_string(max_val, center_val,
                                                  no_data_str)]
    /\ UNCHANGED notFormatVars

\* what _format_jshis_probability may be handed: None, a float, a string
\* that float() parses, a string it does not parse, a value that is neither
\* a number nor a string (a list), and the floats nan and inf.  Numbers are
\* given in thousandths.
ProbabilityValues ==
    {[type |-> "None", thousandths |-> 0]} \cup
    [type : {"float", "numeric_str"},
     thousandths : {0, 5, 123, 260, 500, 987, 1000}] \cup
    [type : {"str", "list", "nan", "inf"}, thousandths : {0}]

\* float(prob_value)
float(prob_value) ==
    CASE prob_value.type \in {"float", "numeric_str"} ->
             [kind |-> "return", type |-> "float",
              thousandths |-> prob_value.thousandths]
      [] prob_value.type \in {"nan", "inf"} ->
             [kind |-> "return", type |-> prob_value.type, thousandths |-> 0]
      [] prob_value.type = "str" ->
             [kind |-> "raise", type |-> "ValueError", thousandths |-> 0]
      [] OTHER -> [kind |-> "raise", type |-> "TypeError", thousandths |-> 0]

\* math.floor(prob_float * 100)
floor_percent(prob_float) ==
    CASE prob_float.type = "float" ->
             [kind |-> "return", type |-> "int",
              value |-> prob_float.thousandths \div 10]
      [] prob_float.type = "nan" ->
             [kind |-> "raise", type |-> "ValueError", value |-> 0]
      [] OTHER -> [kind |-> "raise", type |-> "OverflowError", value |-> 0]

\* _format_jshis_probability: the try catches ValueError alone
format_jshis_probability(prob_value) ==
    IF prob_value.type /= "None"
    THEN LET prob_float == float(prob_value)
             percent == floor_percent(prob_float)
             raised == IF prob_float.kind = "raise" THEN prob_float.type
                       ELSE IF percent.kind = "raise" THEN percent.type
                       ELSE "none"
         IN IF raised = "none"
            THEN [kind |-> "return", value |-> ToString(percent.value) \o "%"]
            ELSE IF raised = "ValueError"
                 THEN [kind |-> "return", value |-> "deta_kaiseki_shippai"]
                 ELSE [kind |-> "raise", value |-> raised]
    ELSE [kind |-> "return", value |-> "deta_nashi"]

FormatJshisProbability(prob_value) ==
    /\ fmt_fn' = "format_jshis_probability"
    /\ fmt_args' = [prob_value |-> prob_value]
    /\ fmt_result' = format_jshis_probability(prob_value)
    /\ UNCHANGED notFormatVars

FormatNext ==
    \/ \E max_val \in DisplayValues, center_val \in DisplayValues,
          no_data_str \in NoDataStrings :
            FormatHazardOutputString(max_val, center_val, no_data_str)
    \/ \E prob_value \in ProbabilityValues : FormatJshisProbability(prob_value)

\* C12: _format_hazard_output_string returns the no-data string exactly when
\* each of the two values is absent or equal to it, and otherwise the
\* two-line string holding both values, an absent one shown as the no-data
\* string.
C12_ShortFormIffBothAbsent ==
    fmt_fn = "format_hazard_output_string" =>
        LET a == fmt_args
            Absent(v) == v = NoneVal \/ v = a.no_data_str
            Shown(v) == IF v = NoneVal THEN a.no_data_str ELSE v
        IN /\ fmt_result.kind = "return"
           /\ fmt_result.value = a.no_data_str <=>
                  Absent(a.max_val) /\ Absent(a.center_val)
           /\ ~(Absent(a.max_val) /\ Absent(a.center_val)) =>
                  fmt_result.value =
                      " shuhen_100m_no_saidai: " \o Shown(a.max_val)
                          \o "\n chushinten: " \o Shown(a.center_val)

\* the formatter was applied to a present maximum and an absent centre
C12_Witness ==
    /\ fmt_fn = "format_hazard_output_string"
    /\ fmt_args.max_val = "10m"
    /\ fmt_args.center_val = NoneVal
    /\ fmt_result.value /= fmt_args.no_data_str

\* C13: _format_jshis_probability never raises; it returns "deta_nashi" for
\* an absent value, "deta_kaiseki_shippai" for every present value that is
\* not numeric, and floor(p * 100) followed by "%" for a number p.
C13_NeverRaisesThreeOutcomes ==
    fmt_fn = "format_jshis_probability" =>
        LET v == fmt_args.prob_value
        IN /\ fmt_result.kind = "return"
           /\ v.type = "None" => fmt_result.value = "deta_nashi"
           /\ v.type \in {"str", "list"} =>
                  fmt_result.value = "deta_kaiseki_shippai"
           /\ v.type \in {"float", "numeric_str"} =>
                  fmt_result.value = ToString(v.thousandths \div 10) \o "%"

(***************************************************************************)
(* C14: over any sequence of large-fill-land queries in one process, the   *)
(* index of a prefecture code is built at most once, by the first query    *)
(* that gets to scan that prefecture; a cache entry is never removed or    *)
(* replaced; and every query that scans a prefecture scans with the pair   *)
(* the cache holds for it.                                                 *)
(***************************************************************************)
BuiltAtMostOnce ==
    \A a, b \in DOMAIN builds : builds[a] = builds[b] => a = b

ScansWithCachedPair ==
    fill_pc = "scan" =>
        /\ pref_order[pref_idx] \in DOMAIN rtree_cache
        /\ rtree_pair = rtree_cache[pref_order[pref_idx]]

CacheOnlyGrows ==
    \A code \in DOMAIN rtree_cache :
        /\ code \in DOMAIN rtree_cache'
        /\ rtree_cache'[code] = rtree_cache[code]

BuildOnlyOnMiss ==
    builds' # builds =>
        /\ pref_order[pref_idx] \notin DOMAIN rtree_cache
        /\ builds' = Append(builds, pref_order[pref_idx])
        /\ fill_pc' = "scan"

C14_IndexBuiltAtMostOnce ==
    /\ [](BuiltAtMostOnce /\ ScansWithCachedPair)
    /\ [][CacheOnlyGrows /\ BuildOnlyOnMiss]_vars

\* a second query scans a prefecture whose index an earlier query built
C14_Witness ==
    /\ queries = 2
    /\ fill_pc = "scan"
    /\ builds = << pref_order[pref_idx] >>
    /\ Len(loaded) >= 2
    /\ rtree_pair = rtree_cache[pref_order[pref_idx]]

(***************************************************************************)
(* Two queries of one process running concurrently over _rtree_cache.      *)
(* A thread's steps are the statements of one loop turn of                 *)
(* get_large_scale_filled_land_info_from_geojson: the load, the test       *)
(* "pref_code not in _rtree_cache", the turns of the loop of               *)
(* _build_rtree_index on the thread's own idx and features, the one        *)
(* assignment to the cache, and the scan. Threads switch between any two.  *)
(***************************************************************************)
Threads == {1, 2}

ThreadInit ==
    /\ thread_pc = [t \in Threads |-> "idle"]
    /\ thread_code = [t \in Threads |-> "none"]
    /\ thread_pair = [t \in Threads |-> NoPair]
    /\ thread_calls = [t \in Threads |-> 0]
    /\ thread_missed = [t \in Threads |-> FALSE]

\* a query reaches the loop turn of pref_code
ThreadCall(t, pref_code) ==
    /\ thread_pc[t] = "idle"
    /\ thread_calls[t] < MaxQueries
    /\ thread_calls' = [thread_calls EXCEPT ![t] = @ + 1]
    /\ thread_code' = [thread_code EXCEPT ![t] = pref_code]
    /\ thread_pair' = [thread_pair EXCEPT ![t] = NoPair]
    /\ thread_missed' = [thread_missed EXCEPT ![t] = FALSE]
    /\ thread_pc' = [thread_pc EXCEPT ![t] = "load"]
    /\ UNCHANGED << rtree_cache, builds >>
    /\ UNCHANGED notThreadVars

\* load_large_geojson: a failed or empty load ends the turn
ThreadLoad(t, outcome) ==
    /\ thread_pc[t] = "load"
    /\ thread_pc' = [thread_pc EXCEPT ![t] =
                        IF outcome = "ok" THEN "check" ELSE "idle"]
    /\ UNCHANGED << thread_code, thread_pair, thread_calls, thread_missed,
                    rtree_cache, builds >>
    /\ UNCHANGED notThreadVars

\* if pref_code not in _rtree_cache: ... else: read the cached pair
ThreadCheck(t) ==
    /\ thread_pc[t] = "check"
    /\ IF InCache(thread_code[t], rtree_cache)
       THEN /\ thread_pair' =
                   [thread_pair EXCEPT ![t] = rtree_cache[thread_code[t]]]
            /\ thread_pc' = [thread_pc EXCEPT ![t] = "scan"]
            /\ UNCHANGED thread_missed
       ELSE /\ thread_pair' =
                   [thread_pair EXCEPT ![t] = EmptyPair(thread_code[t])]
            /\ thread_pc' = [thread_pc EXCEPT ![t] = "build"]
            /\ thread_missed' = [thread_missed EXCEPT ![t] = TRUE]
    /\ UNCHANGED << thread_code, thread_calls, rtree_cache, builds >>
    /\ UNCHANGED notThreadVars

\* the mutation of CacheDuringBuild: the pair is published while it is built
CachePublishedEarly(cache, code, pair) == CachePut(cache, code, pair)

\* _build_rtree_index works on its own locals: the cache is as it was
CacheDuringBuild(cache, code, pair) == cache

\* one turn of the loop of _build_rtree_index, or its return
ThreadBuild(t) ==
    /\ thread_pc[t] = "build"
    /\ IF BuildDone(thread_pair[t])
       THEN /\ thread_pc' = [thread_pc EXCEPT ![t] = "store"]
            /\ UNCHANGED << thread_pair, rtree_cache >>
       ELSE /\ thread_pair' =
                   [thread_pair EXCEPT ![t] = InsertFeature(@)]
            /\ rtree_cache' =
                   CacheDuringBuild(rtree_cache, thread_code[t],
                                    InsertFeature(thread_pair[t]))
            /\ UNCHANGED thread_pc
    /\ UNCHANGED << thread_code, thread_calls, thread_missed, builds >>
    /\ UNCHANGED notThreadVars

\* _rtree_cache[pref_code] = (rtree_idx, features)
ThreadStore(t) ==
    /\ thread_pc[t] = "store"
    /\ rtree_cache' = CachePut(rtree_cache, thread_code[t], thread_pair[t])
    /\ builds' = Append(builds, thread_code[t])
    /\ thread_pc' = [thread_pc EXCEPT ![t] = "scan"]
    /\ UNCHANGED << thread_code, thread_pair, thread_calls, thread_missed >>
    /\ UNCHANGED notThreadVars

\* the point loop with the thread's pair, then the end of the turn
ThreadScan(t) ==
    /\ thread_pc[t] = "scan"
    /\ thread_pc' = [thread_pc EXCEPT ![t] = "idle"]
    /\ UNCHANGED << thread_code, thread_pair, thread_calls, thread_missed,
                    rtree_cache, builds >>
    /\ UNCHANGED notThreadVars

ThreadNext ==
    \E t \in Threads :
        \/ \E pref_code \in PrefCodes : ThreadCall(t, pref_code)
        \/ \E outcome \in {"ok", "raise", "empty"} : ThreadLoad(t, outcome)
        \/ ThreadCheck(t)
        \/ ThreadBuild(t)
        \/ ThreadStore(t)
        \/ ThreadScan(t)

\* a pair holding the whole dataset of the prefecture
Complete(pair, code) ==
    /\ pair.code = code
    /\ pair.indexed = FeaturesPerDataset
    /\ pair.features = FeaturesPerDataset

(***************************************************************************)
(* C15: when two concurrent queries both find the same prefecture code     *)
(* missing from the cache, every interleaving of their checks, builds and  *)
(* stores leaves the cache mapping the code to one complete pair built     *)
(* from that prefecture's dataset, and each query scans with a complete    *)
(* pair of that prefecture.                                                *)
(***************************************************************************)
C15_ConcurrentMissesStayComplete ==
    /\ \A code \in DOMAIN rtree_cache : Complete(rtree_cache[code], code)
    /\ \A t \in Threads :
           thread_pc[t] = "scan" => Complete(thread_pair[t], thread_code[t])

\* both threads missed the same code, both built and stored, both scan
C15_Witness ==
    /\ thread_code[1] = thread_code[2]
    /\ thread_missed[1] /\ thread_missed[2]
    /\ thread_calls[1] = 1 /\ thread_calls[2] = 1
    /\ thread_pc[1] = "scan" /\ thread_pc[2] = "scan"
    /\ builds = << thread_code[1], thread_code[1] >>
    /\ Complete(rtree_cache[thread_code[1]], thread_code[1])

(***************************************************************************)
(* C16: when the dataset of one prefecture fails to load (the loader       *)
(* raises or returns nothing), no point of that prefecture is scanned, so  *)
(* its points contribute joho_nashi; the centre is reported joho_nashi     *)
(* when it belongs to that prefecture; and the loop goes on to load and    *)
(* scan the remaining prefectures, so a point of another prefecture that   *)
(* lies in a polygon still makes the reported maximum ari.                 *)
(***************************************************************************)
PointsOf(codes) ==
    UNION {{pref_groups[code][m] : m \in DOMAIN pref_groups[code]} :
              code \in codes \cap DOMAIN pref_groups}

TestedPoints == {tested[m] : m \in DOMAIN tested}

FailedLoadGoesOn ==
    (fill_pc = "load" /\ load_failed' # load_failed) =>
        /\ fill_pc' = "pref"
        /\ pref_idx' = pref_idx + 1
        /\ fill_max_info' = fill_max_info
        /\ found_any' = found_any
        /\ tested' = tested

C16_FailedLoadSparesOtherPrefectures ==
    /\ [](PointsOf(load_failed) \cap TestedPoints = {})
    /\ [](fill_pc = "done" =>
            /\ 0 \in PointsOf(load_failed) =>
                   fill_result.center_info = "joho_nashi"
            /\ PointsOf(DOMAIN pref_groups) \subseteq PointsOf(load_failed) =>
                   fill_result.max_info = "joho_nashi"
            /\ ~found_any =>
                   \A m \in DOMAIN pref_order :
                       \E n \in DOMAIN loaded : loaded[n] = pref_order[m]
            /\ found_at # -1 => fill_result.max_info = "ari")
    /\ [][FailedLoadGoesOn]_vars

\* the centre's prefecture failed to load, a point of another one was found
\* in a polygon, and the query returned
C16_Witness ==
    /\ fill_pc = "done"
    /\ 0 \in PointsOf(load_failed)
    /\ found_at > 0
    /\ Len(loaded) = 2
    /\ fill_result = [max_info |-> "ari", center_info |-> "joho_nashi"]

(***************************************************************************)
(* lambda_function.py: lambda_handler and get_hazard_from_input.           *)
(* Coordinates are in thousandths of a degree.  A coordinate parameter is  *)
(* absent, a text float() rejects, or a number; a hazard type is a name    *)
(* with or without blanks around it.                                       *)
(***************************************************************************)
Absent == [kind |-> "absent", value |-> 0]

Text == [kind |-> "text", value |-> 0]

Num(n) == [kind |-> "number", value |-> n]

Type(pad, name) == [pad |-> pad, name |-> name]

\* hazard_types as sent: not sent, or the names in order
NotSent == [given |-> FALSE, tokens |-> << >>]

Sent(tokens) == [given |-> TRUE, tokens |-> tokens]

NoInput == [kind |-> "absent", lat |-> 0, lon |-> 0, geocode |-> "none"]

LatLonText(p_lat, p_lon) ==
    [kind |-> "latlon", lat |-> p_lat, lon |-> p_lon, geocode |-> "none"]

Address(p_lat, p_lon, geocode) ==
    [kind |-> "address", lat |-> p_lat, lon |-> p_lon, geocode |-> geocode]

\* where the request says the place is: lat and lon, or input, or both
DirectSources ==
    [lat : {Absent, Text, Num(23999), Num(24000), Num(35659), Num(46001)},
     lon : {Absent, Num(122999), Num(139745), Num(146011)},
     input : {NoInput}]

InputSources ==
    [lat : {Absent, Num(35659)},
     lon : {Absent},
     input : {LatLonText(24000, 139745), LatLonText(46001, 139745),
              Address(35659, 139745, "ok"), Address(51507, 0, "ok"),
              Address(0, 0, "none"), Address(0, 0, "raise")}]

HazardTypesSent ==
    {NotSent, Sent(<< >>), Sent(<< Type(FALSE, "flood") >>),
     Sent(<< Type(FALSE, "flood"), Type(TRUE, "tsunami") >>),
     Sent(<< Type(FALSE, "bogus"), Type(FALSE, "earthquake") >>)}

ParamEvents ==
    {[httpMethod |-> m, body |-> "params", lat |-> src.lat, lon |-> src.lon,
      input |-> src.input, datum |-> d, hazard_types |-> h, precision |-> p,
      search_points |-> sp] :
        m \in {"GET", "POST"},
        src \in DirectSources \cup InputSources,
        d \in {NoneVal, "wgs84", "tokyo", "invalid"},
        h \in HazardTypesSent,
        p \in {NoneVal, "low", "high", "medium"},
        sp \in {NoneVal, "4", "8", "9"}}

BareEvent(m, body) ==
    [httpMethod |-> m, body |-> body, lat |-> Absent, lon |-> Absent,
     input |-> NoInput, datum |-> NoneVal, hazard_types |-> NotSent,
     precision |-> NoneVal, search_points |-> NoneVal]

Events ==
    ParamEvents \cup
    {BareEvent("OPTIONS", "params"), BareEvent("PUT", "params"),
     BareEvent("POST", "invalid_json"), BareEvent("POST", "empty")}

NoEvent == BareEvent("none", "params")

NoResponse == [statusCode |-> 0, error |-> ""]

Response(status, error) == [statusCode |-> status, error |-> error]

\* hazard_types of the handler: None, or a list
NoneTypes == [none |-> TRUE, names |-> << >>]

ListOf(names) == [none |-> FALSE, names |-> names]

LambdaInit ==
    /\ lambda_pc = "idle"
    /\ event = NoEvent
    /\ lambda_lat = Absent
    /\ lambda_lon = Absent
    /\ input_text = NoInput
    /\ datum = NoneVal
    /\ lambda_hazard_types = NoneTypes
    /\ lambda_precision = NoneVal
    /\ lambda_response = NoResponse
    /\ selective_calls = << >>

LambdaFrame == UNCHANGED notLambdaVars

\* the handler is invoked with an event
ReceiveEvent(ev) ==
    /\ lambda_pc = "idle"
    /\ event' = ev
    /\ lambda_pc' = "method"
    /\ UNCHANGED << lambda_lat, lambda_lon, input_text, datum,
                    lambda_hazard_types, lambda_precision, lambda_response,
                    selective_calls >>
    /\ LambdaFrame

\* the OPTIONS answer and the check of the HTTP method
CheckMethod ==
    /\ lambda_pc = "method"
    /\ IF event.httpMethod = "OPTIONS"
       THEN /\ lambda_response' = Response(200, "")
            /\ lambda_pc' = "done"
       ELSE IF event.httpMethod \notin {"GET", "POST"}
            THEN /\ lambda_response' = Response(405, "Method not allowed")
                 /\ lambda_pc' = "done"
            ELSE /\ lambda_pc' = "params"
                 /\ UNCHANGED lambda_response
    /\ UNCHANGED << event, lambda_lat, lambda_lon, input_text, datum,
                    lambda_hazard_types, lambda_precision, selective_calls >>
    /\ LambdaFrame

\* h.strip()
strip(type) == Type(FALSE, type.name)

\* [h.strip() for h in hazard_types_str.split(',')]
SplitAndStrip(tokens) == [n \in DOMAIN tokens |-> strip(tokens[n])]

\* dict.get(key, default)
GetOr(value, default) == IF value = NoneVal THEN default ELSE value

\* the parameters from the query string or from the JSON body
GetParams ==
    /\ lambda_pc = "params"
    /\ IF event.httpMethod = "POST" /\ event.body = "invalid_json"
       THEN /\ lambda_response' = Response(400, "Invalid JSON")
            /\ lambda_pc' = "done"
            /\ UNCHANGED << lambda_lat, lambda_lon, input_text, datum,
                            lambda_hazard_types, lambda_precision >>
       ELSE IF event.httpMethod = "POST" /\ event.body = "empty"
            THEN /\ lambda_pc' = "validate"
                 /\ UNCHANGED << lambda_lat, lambda_lon, input_text, datum,
                                 lambda_hazard_types, lambda_precision,
                                 lambda_response >>
            ELSE /\ lambda_lat' = event.lat
                 /\ lambda_lon' = event.lon
                 /\ input_text' = event.input
                 /\ datum' = GetOr(event.datum, "wgs84")
                 /\ lambda_hazard_types' =
                        IF event.httpMethod = "GET"
                        THEN IF event.hazard_types.given
                                /\ event.hazard_types.tokens # << >>
                             THEN ListOf(SplitAndStrip(
                                             event.hazard_types.tokens))
                             ELSE NoneTypes
                        ELSE IF event.hazard_types.given
                             THEN ListOf(event.hazard_types.tokens)
                             ELSE NoneTypes
                 /\ lambda_precision' = GetOr(event.precision, "low")
                 /\ lambda_pc' = "validate"
                 /\ UNCHANGED lambda_response
    /\ UNCHANGED << event, selective_calls >>
    /\ LambdaFrame

valid_hazard_types ==
    {"earthquake", "flood", "flood_keizoku", "kaokutoukai_hanran", "tsunami",
     "high_tide", "landslide", "large_fill_land"}

\* ht not in valid_hazard_types
InvalidType(type) == type.pad \/ type.name \notin valid_hazard_types

\* invalid_types, as a truth value
invalid_types(types) ==
    /\ ~types.none
    /\ \E n \in DOMAIN types.names : InvalidType(types.names[n])

\* the checks of datum, hazard_types and precision, in source order
ValidateParams ==
    /\ lambda_pc = "validate"
    /\ IF datum \notin {"wgs84", "tokyo"}
       THEN /\ lambda_response' = Response(400, "Invalid datum parameter")
            /\ lambda_pc' = "done"
       ELSE IF invalid_types(lambda_hazard_types)
            THEN /\ lambda_response' =
                        Response(400, "Invalid hazard_types parameter")
                 /\ lambda_pc' = "done"
            ELSE IF lambda_precision \notin {"low", "high"}
                 THEN /\ lambda_response' =
                            Response(400, "Invalid precision parameter")
                      /\ lambda_pc' = "done"
                 ELSE /\ lambda_pc' = "route"
                      /\ UNCHANGED lambda_response
    /\ UNCHANGED << event, lambda_lat, lambda_lon, input_text, datum,
                    lambda_hazard_types, lambda_precision, selective_calls >>
    /\ LambdaFrame

\* floor division, also of a negative numerator
FloorDiv(a, b) == IF a >= 0 THEN a \div b ELSE -((-a + b - 1) \div b)

\* geocoding.convert_tokyo_datum_to_wgs84, in thousandths of a degree
convert_tokyo_datum_to_wgs84(p_lat, p_lon) ==
    [lat |-> p_lat + FloorDiv(10695 * p_lat - 1746 * p_lon - 460170000,
                              100000000),
     lon |-> p_lon + FloorDiv(4604 * p_lat + 8304 * p_lon - 1004000000,
                              100000000)]

\* the datum conversion both paths apply before the range check
Converted(p_lat, p_lon, p_datum) ==
    IF p_datum = "tokyo" THEN convert_tokyo_datum_to_wgs84(p_lat, p_lon)
    ELSE [lat |-> p_lat, lon |-> p_lon]

\* the mutation of validate_coordinates: every place passes
CoordinatesUnchecked(p_lat, p_lon) == TRUE

\* validate_coordinates: is_valid
validate_coordinates(p_lat, p_lon) ==
    /\ 24000 <= p_lat /\ p_lat <= 46000
    /\ 123000 <= p_lon /\ p_lon <= 146000

\* the arguments of one call of hazard_info.get_selective_hazard_info; the
\* fourth is printed with its type
Bool(b) == [type |-> "bool", repr |-> IF b THEN "True" ELSE "False"]

SelectiveCall(p_lat, p_lon, types, fourth) ==
    [lat |-> p_lat, lon |-> p_lon, hazard_types |-> types, fourth |-> fourth]

\* get_selective_hazard_info returns a report or raises
RetrievalOutcomes == {"ok", "raise"}

\* the call and the answer built from it; an exception reaches the handler's
\* outer except
Retrieve(where, outcome) ==
    [calls |-> Append(selective_calls,
                      SelectiveCall(where.lat, where.lon, lambda_hazard_types,
                                    Bool(lambda_precision = "high"))),
     response |-> IF outcome = "ok" THEN Response(200, "")
                  ELSE Response(500, "Internal server error")]

\* no call: the answer alone
Answer(status, error) ==
    [calls |-> selective_calls, response |-> Response(status, error)]

\* get_hazard_from_input, as called by the handler
get_hazard_from_input(outcome) ==
    IF input_text.kind = "latlon"
    THEN LET where == Converted(input_text.lat, input_text.lon, datum)
         IN IF validate_coordinates(where.lat, where.lon)
            THEN Retrieve(where, outcome)
            ELSE Answer(400, "Invalid coordinates")
    ELSE IF input_text.geocode # "ok"
         THEN Answer(400, "Geocoding error")
         ELSE IF validate_coordinates(input_text.lat, input_text.lon)
              THEN Retrieve([lat |-> input_text.lat, lon |-> input_text.lon],
                            outcome)
              ELSE Answer(400, "Invalid coordinates")

\* "if input_text:", the address, URL or coordinate text
FlexibleInput(outcome) ==
    /\ lambda_pc = "route"
    /\ input_text.kind # "absent"
    /\ selective_calls' = get_hazard_from_input(outcome).calls
    /\ lambda_response' = get_hazard_from_input(outcome).response
    /\ lambda_pc' = "done"
    /\ UNCHANGED << event, lambda_lat, lambda_lon, input_text, datum,
                    lambda_hazard_types, lambda_precision >>
    /\ LambdaFrame

\* the branch of lat and lon given directly
LatLon(outcome) ==
    IF lambda_lat.kind = "text" \/ lambda_lon.kind = "text"
    THEN Answer(500, "Internal server error")
    ELSE LET where == Converted(lambda_lat.value, lambda_lon.value, datum)
         IN IF validate_coordinates(where.lat, where.lon)
            THEN Retrieve(where, outcome)
            ELSE Answer(400, "Invalid coordinates")

\* "elif lat is not None and lon is not None:"
DirectInput(outcome) ==
    /\ lambda_pc = "route"
    /\ input_text.kind = "absent"
    /\ lambda_lat.kind # "absent" /\ lambda_lon.kind # "absent"
    /\ selective_calls' = LatLon(outcome).calls
    /\ lambda_response' = LatLon(outcome).response
    /\ lambda_pc' = "done"
    /\ UNCHANGED << event, lambda_lat, lambda_lon, input_text, datum,
                    lambda_hazard_types, lambda_precision >>
    /\ LambdaFrame

\* "else:", neither input nor both of lat and lon
MissingParams ==
    /\ lambda_pc = "route"
    /\ input_text.kind = "absent"
    /\ lambda_lat.kind = "absent" \/ lambda_lon.kind = "absent"
    /\ lambda_response' = Response(400, "Missing parameters")
    /\ lambda_pc' = "done"
    /\ UNCHANGED << event, lambda_lat, lambda_lon, input_text, datum,
                    lambda_hazard_types, lambda_precision, selective_calls >>
    /\ LambdaFrame

LambdaNext ==
    \/ /\ lambda_pc = "idle"
       /\ \E ev \in Events : ReceiveEvent(ev)
    \/ CheckMethod
    \/ GetParams
    \/ ValidateParams
    \/ \E outcome \in RetrievalOutcomes : FlexibleInput(outcome)
    \/ \E outcome \in RetrievalOutcomes : DirectInput(outcome)
    \/ MissingParams

(***************************************************************************)
(* What a request asks for, read from the event alone.                     *)
(***************************************************************************)
CarriesParams == event.httpMethod \in {"GET", "POST"} /\ event.body = "params"

DatumValid == event.datum \in {NoneVal, "wgs84", "tokyo"}

PrecisionValid == event.precision \in {NoneVal, "low", "high"}

\* the names the request lists: a query string is split and stripped, a JSON
\* list is taken as it is
TypesValid ==
    \A n \in DOMAIN event.hazard_types.tokens :
        /\ event.hazard_types.tokens[n].name \in valid_hazard_types
        /\ event.httpMethod = "POST" => ~event.hazard_types.tokens[n].pad

\* the request names a place in numbers
CoordinatesKnown ==
    \/ event.input.kind = "latlon"
    \/ event.input.kind = "address" /\ event.input.geocode = "ok"
    \/ /\ event.input.kind = "absent"
       /\ event.lat.kind = "number" /\ event.lon.kind = "number"

\* that place after the datum conversion; a geocoded address is not converted
Place ==
    IF event.input.kind = "latlon"
    THEN Converted(event.input.lat, event.input.lon,
                   GetOr(event.datum, "wgs84"))
    ELSE IF event.input.kind = "address"
         THEN [lat |-> event.input.lat, lon |-> event.input.lon]
         ELSE Converted(event.lat.value, event.lon.value,
                        GetOr(event.datum, "wgs84"))

InJapan(where) ==
    /\ 24000 <= where.lat /\ where.lat <= 46000
    /\ 123000 <= where.lon /\ where.lon <= 146000

(***************************************************************************)
(* C17: lambda_handler calls get_selective_hazard_info only after every    *)
(* validation has passed (datum wgs84 or tokyo, every requested hazard     *)
(* type in the valid list, precision low or high, the converted            *)
(* coordinates within latitude 24.0 to 46.0 and longitude 123.0 to 146.0), *)
(* and with the converted coordinates; when one of the validations fails   *)
(* the answer is status 400 and no call has been made.                     *)
(***************************************************************************)
C17_RetrievalOnlyAfterValidation ==
    /\ Len(selective_calls) <= 1
    /\ \A n \in DOMAIN selective_calls :
           /\ CarriesParams /\ DatumValid /\ TypesValid /\ PrecisionValid
           /\ CoordinatesKnown /\ InJapan(Place)
           /\ selective_calls[n].lat = Place.lat
           /\ selective_calls[n].lon = Place.lon
    /\ (/\ lambda_pc = "done"
        /\ CarriesParams
        /\ \/ ~DatumValid
           \/ ~TypesValid
           \/ ~PrecisionValid
           \/ CoordinatesKnown /\ ~InJapan(Place))
       => lambda_response.statusCode = 400 /\ selective_calls = << >>

\* a Tokyo-datum latitude of 46.001 converts into the range: one call is made
C17_Witness ==
    /\ lambda_pc = "done"
    /\ event.datum = "tokyo"
    /\ event.lat = Num(46001)
    /\ event.input.kind = "absent"
    /\ Len(selective_calls) = 1
    /\ selective_calls[1].lat < 46000
    /\ lambda_response.statusCode = 200

\* a Tokyo-datum latitude of 24.0 converts out of the range: 400, no call
C17_WitnessRejected ==
    /\ lambda_pc = "done"
    /\ event.datum = "tokyo"
    /\ event.lat = Num(24000)
    /\ event.lon = Num(139745)
    /\ event.input.kind = "absent"
    /\ DatumValid /\ TypesValid /\ PrecisionValid
    /\ lambda_response = Response(400, "Invalid coordinates")
    /\ selective_calls = << >>

(***************************************************************************)
(* C18: lambda_handler takes a search_points parameter that may be 4 or 8  *)
(* and is 4 when omitted, in GET and in POST requests: any other value is  *)
(* answered with status 400 and the error "Invalid search_points           *)
(* parameter", and the value is passed as the fourth argument of           *)
(* get_selective_hazard_info.  Stated for requests that are valid in       *)
(* every other respect.                                                    *)
(***************************************************************************)
Integer(repr) == [type |-> "int", repr |-> repr]

OtherwiseValid ==
    /\ CarriesParams /\ DatumValid /\ TypesValid /\ PrecisionValid
    /\ CoordinatesKnown /\ InJapan(Place)

C18_SearchPointsValidatedAndForwarded ==
    (lambda_pc = "done" /\ OtherwiseValid) =>
        /\ event.search_points \notin {NoneVal, "4", "8"} =>
               lambda_response =
                   Response(400, "Invalid search_points parameter")
        /\ \A n \in DOMAIN selective_calls :
               selective_calls[n].fourth =
                   Integer(GetOr(event.search_points, "4"))

(***************************************************************************)
(* C19: in get_inundation_depth_from_gsi_tile no tile of the fallback      *)
(* (planned-scale) layer is fetched unless high precision was asked and    *)
(* the greatest weight of the primary layer is below 1; and when both      *)
(* hold, the fallback tiles are fetched, for the tile addresses of the     *)
(* primary ones.                                                           *)
(***************************************************************************)
IsPrefix(p, q) ==
    /\ Len(p) <= Len(q)
    /\ \A n \in 1..Len(p) : p[n] = q[n]

FallbackOnlyWhenDue ==
    phase = "l1" =>
        /\ fn = "flood"
        /\ high_precision
        /\ pre_merge.max_info.weight < 10

NoFallbackElsewhere ==
    (fn # "flood" \/ ~high_precision) => phase = "l2"

FallbackSameAddresses ==
    phase = "l1" =>
        /\ pre_merge.tiles # << >>
        /\ IsPrefix(dispatched, pre_merge.tiles)
        /\ pc \in {"reduce", "done"} => dispatched = pre_merge.tiles

\* the flood function returns after the primary layer only when no fallback
\* is due
ReturnsWithoutFallback ==
    (fn = "flood" /\ phase = "l2" /\ pc = "reduce" /\ pc' = "done") =>
        ~(high_precision /\ max_info.weight < 10)

C19_FallbackOnlyWhenDue ==
    /\ [](FallbackOnlyWhenDue /\ NoFallbackElsewhere /\ FallbackSameAddresses)
    /\ [][ReturnsWithoutFallback]_vars

\* the primary layer gave a weight of 0.5 over two tiles, the fallback tiles
\* of both addresses were fetched, and the function returned
C19_Witness ==
    /\ fn = "flood"
    /\ pc = "done"
    /\ phase = "l1"
    /\ pre_merge.max_info.weight = 5
    /\ Len(pre_merge.tiles) = 2
    /\ dispatched = pre_merge.tiles

(***************************************************************************)
(* One max-reduction of _get_max_info_from_tile_8_directions or            *)
(* _get_max_info_from_tile_high_precision over a colour table the caller   *)
(* passes: two table colours, each with its own description and a weight   *)
(* of 1 or 2, so that two of the four tables give both colours one weight. *)
(***************************************************************************)
TableColors == { <<10, 20, 30>>, <<40, 50, 60>> }

DescriptionOf(rgb) == IF rgb = <<10, 20, 30>> THEN "first" ELSE "second"

ColorTables ==
    {[rgb \in TableColors |->
         [description |-> DescriptionOf(rgb), weight |-> w[rgb]]] :
        w \in [TableColors -> {10, 20}]}

\* a point the loop passes over: its offset is off the tile, or its tile was
\* not fetched
Skipped == [rgb |-> << >>, a |-> -3]

TablePixels == [rgb : TableColors, a : {255}]

OtherPixels == [rgb : { <<1, 2, 3>> }, a : {0, 255}]

\* what a point of either loop can meet
ReduceReads(mode) ==
    IF mode = "standard"
    THEN TablePixels \cup {[rgb |-> <<1, 2, 3>>, a |-> 0]}
    ELSE TablePixels \cup OtherPixels \cup {ReadFail, Skipped}

\* the number of turns of the loop
ReduceLength(mode) ==
    IF mode = "standard" THEN Len(pixel_offsets) ELSE NumPoints

ReduceInit ==
    /\ reduce_pc = "idle"
    /\ reduce_mode = "none"
    /\ reduce_color_map = [rgb \in {} |-> NoRiskInfo("none")]
    /\ reduce_reads = << >>
    /\ reduce_acc = [max_info |-> NoRiskInfo("none"),
                     center_info |-> NoRiskInfo("none")]

\* the function is entered: max_info and center_info start at no risk
CallReduce(mode, color_map) ==
    /\ reduce_pc = "idle"
    /\ reduce_mode' = mode
    /\ reduce_color_map' = color_map
    /\ reduce_reads' = << >>
    /\ reduce_acc' = [max_info |-> NoRiskInfo("gaito_nashi"),
                      center_info |-> NoRiskInfo("gaito_nashi")]
    /\ reduce_pc' = "loop"
    /\ UNCHANGED notReduceVars

\* one turn of the loop, or its end
ReducePoint(read) ==
    /\ reduce_pc = "loop"
    /\ IF Len(reduce_reads) = ReduceLength(reduce_mode)
       THEN /\ reduce_pc' = "done"
            /\ read = Skipped
            /\ UNCHANGED << reduce_reads, reduce_acc >>
       ELSE /\ read \in ReduceReads(reduce_mode)
            /\ reduce_reads' = Append(reduce_reads, read)
            /\ reduce_acc' =
                   IF read = Skipped THEN reduce_acc
                   ELSE ProcessTilePixel(reduce_acc, Len(reduce_reads) = 0,
                                         read, reduce_color_map,
                                         "gaito_nashi")
            /\ UNCHANGED reduce_pc
    /\ UNCHANGED << reduce_mode, reduce_color_map >>
    /\ UNCHANGED notReduceVars

ReduceNext ==
    \/ /\ reduce_pc = "idle"
       /\ \E mode \in {"standard", "high"}, color_map \in ColorTables :
              CallReduce(mode, color_map)
    \/ \E read \in TablePixels \cup OtherPixels \cup {ReadFail, Skipped} :
           ReducePoint(read)

(***************************************************************************)
(* C20: in a max-reduction over any colour table, also one in which two    *)
(* colours share a weight, the maximum is the entry of the first point, in *)
(* loop order, whose weight is the greatest; a later point of equal weight *)
(* never replaces it.                                                      *)
(***************************************************************************)
\* the points that were classified, and what they were classified as
Classified(n) == reduce_reads[n] \notin {ReadFail, Skipped}

InfoAt(n) == ClassifyPixel(reduce_reads[n], reduce_color_map, "gaito_nashi")

\* the points that beat the weight the maximum starts with
Candidates ==
    {n \in DOMAIN reduce_reads : Classified(n) /\ InfoAt(n).weight > 0}

FirstGreatest ==
    CHOOSE n \in Candidates :
        \A m \in Candidates :
            \/ InfoAt(m).weight < InfoAt(n).weight
            \/ InfoAt(m).weight = InfoAt(n).weight /\ n <= m

MaxIsFirstGreatest ==
    reduce_pc \in {"loop", "done"} =>
        reduce_acc.max_info =
            IF Candidates = {} THEN NoRiskInfo("gaito_nashi")
            ELSE InfoAt(FirstGreatest)

NeverReplacedByEqual ==
    reduce_acc.max_info' # reduce_acc.max_info =>
        \/ reduce_pc = "idle"
        \/ reduce_acc.max_info'.weight > reduce_acc.max_info.weight

C20_TiesKeepFirstPoint ==
    []MaxIsFirstGreatest /\ [][NeverReplacedByEqual]_vars

\* two colours of one weight were met, the first of them is the maximum
C20_Witness ==
    /\ reduce_pc = "done"
    /\ \E m, n \in DOMAIN reduce_reads :
           /\ m < n
           /\ Classified(m) /\ Classified(n)
           /\ InfoAt(m).weight = InfoAt(n).weight
           /\ InfoAt(m).description # InfoAt(n).description
           /\ reduce_acc.max_info = InfoAt(m)
           /\ \A q \in DOMAIN reduce_reads :
                  Classified(q) => InfoAt(q).weight <= InfoAt(m).weight

(***************************************************************************)
(* The order of the concurrent tile fetches of one ring call.              *)
(***************************************************************************)
\* what getpixel holds for the ring points of this part: no pixel, an
\* opaque pixel of no table colour, and two colours of the inundation table
\* (weights 3.0 and 0.5)
OrderReads ==
    { ReadFail,
      [rgb |-> <<1, 2, 3>>, a |-> 255],
      [rgb |-> <<255, 183, 183>>, a |-> 255],
      [rgb |-> <<248, 225, 166>>, a |-> 255] }

\* what a tile server answers in this part: an image, an error status (the
\* fetch returns None) or a body that is no image (the fetch raises)
OrderResponses == {"image", "http_error", "undecodable"}

\* the layer a function of this part samples
OrderLayer(f) == IF f = "flood" THEN "flood" ELSE "tsunami"

OrderInit ==
    /\ order_pc = "idle"
    /\ order_fn = "none"
    /\ order_point_tiles = << >>
    /\ order_keys = << >>
    /\ order_futures = NoFutures
    /\ order_k = 1
    /\ order_c = 1
    /\ order_tiles = NoFutures
    /\ order_timed_out = {}
    /\ order_finished = << >>
    /\ order_reads = << >>
    /\ order_result = NoResult

\* the ring is generated and tiles_to_fetch gets one key per distinct address
OrderCall(f, tiles) ==
    /\ order_pc = "idle"
    /\ order_pc' = "submit"
    /\ order_fn' = f
    /\ order_point_tiles' = tiles
    /\ order_keys' = DistinctTiles(tiles, NumPoints)
    /\ order_tiles' = [t \in SeqRange(order_keys') |-> NoneVal]
    /\ UNCHANGED << order_futures, order_k, order_c, order_timed_out,
                    order_finished, order_reads, order_result >>
    /\ UNCHANGED notOrderVars

\* executor.submit for the next key; after the last key the collection starts
OrderSubmit ==
    /\ order_pc = "submit"
    /\ IF order_k <= Len(order_keys)
       THEN /\ order_futures' =
                  [t \in DOMAIN order_futures \cup {order_keys[order_k]} |->
                      IF t = order_keys[order_k] THEN "queued"
                      ELSE order_futures[t]]
            /\ order_k' = order_k + 1
            /\ UNCHANGED order_pc
       ELSE /\ order_pc' = "collect"
            /\ UNCHANGED << order_futures, order_k >>
    /\ UNCHANGED << order_fn, order_point_tiles, order_keys, order_c,
                    order_tiles, order_timed_out, order_finished, order_reads,
                    order_result >>
    /\ UNCHANGED notOrderVars

\* a worker of the pool takes a queued fetch
OrderFetchStart(t) ==
    /\ t \in DOMAIN order_futures
    /\ order_futures[t] = "queued"
    /\ Cardinality({u \in DOMAIN order_futures : order_futures[u] = "running"})
           < MAX_WORKERS
    /\ order_futures' = [order_futures EXCEPT ![t] = "running"]
    /\ UNCHANGED << order_pc, order_fn, order_point_tiles, order_keys, order_k,
                    order_c, order_tiles, order_timed_out, order_finished,
                    order_reads, order_result >>
    /\ UNCHANGED notOrderVars

\* the worker's _fetch_single_tile ends
OrderFetchEnd(t, response) ==
    /\ t \in DOMAIN order_futures
    /\ order_futures[t] = "running"
    /\ order_futures' =
           [order_futures EXCEPT ![t] = FutureOf(fetch_single_tile(response))]
    /\ order_finished' = Append(order_finished, t)
    /\ UNCHANGED << order_pc, order_fn, order_point_tiles, order_keys, order_k,
                    order_c, order_tiles, order_timed_out, order_reads,
                    order_result >>
    /\ UNCHANGED notOrderVars

\* mutant: the c-th key gets the result of the c-th fetch that ended
FutureByCompletion(key, n, finished) ==
    IF n <= Len(finished) THEN finished[n] ELSE key

\* futures[(zoom, x_tile, y_tile)]: the future collected for the n-th key is
\* the one that was submitted for that key
FutureForKey(key, n, finished) == key

\* one iteration of the collection loop (future.result(timeout=5) gives up on
\* a fetch that has not ended), or the end of the loop
OrderCollect ==
    /\ order_pc = "collect"
    /\ IF order_c <= Len(order_keys)
       THEN LET key == order_keys[order_c]
                future == FutureForKey(key, order_c, order_finished)
            IN /\ order_tiles' =
                     [order_tiles EXCEPT
                         ![key] = Collected(order_futures[future])]
               /\ order_timed_out' =
                     IF order_futures[future] \in FutureDone
                     THEN order_timed_out
                     ELSE order_timed_out \cup {key}
               /\ order_c' = order_c + 1
               /\ UNCHANGED order_pc
       ELSE /\ order_pc' = "join"
            /\ UNCHANGED << order_tiles, order_timed_out, order_c >>
    /\ UNCHANGED << order_fn, order_point_tiles, order_keys, order_futures,
                    order_k, order_finished, order_reads, order_result >>
    /\ UNCHANGED notOrderVars

\* the loop over search_points[1..n]: a point whose tile is None is skipped
RECURSIVE OrderLoop(_, _, _, _, _, _)
OrderLoop(f, acc, n, tiles, point_tiles_, reads) ==
    IF n = 0 THEN acc
    ELSE CHOOSE next \in
             { IF tiles[point_tiles_[n]] = NoneVal
               THEN prev
               ELSE ProcessRingPixel(f, "l2", OrderLayer(f), prev, n = 1,
                                     reads[n]) :
                   prev \in {OrderLoop(f, acc, n - 1, tiles, point_tiles_,
                                       reads)} } : TRUE

\* the executor block is left once every fetch has ended; the loop runs over
\* the ring in index order and the mapping is returned.  The pixel a point
\* reads belongs to the tile's content, not to the run.
OrderReduce(reads) ==
    /\ order_pc = "join"
    /\ \A t \in DOMAIN order_futures : order_futures[t] \in FutureDone
    /\ order_pc' = "done"
    /\ order_reads' = reads
    /\ order_result' =
           LET start == [max_info |-> NoRiskInfo(NoRiskOf(OrderLayer(order_fn))),
                         center_info |-> NoRiskInfo(NoRiskOf(OrderLayer(order_fn)))]
               last == OrderLoop(order_fn, start, NumPoints, order_tiles,
                                 order_point_tiles, reads)
           IN [max_info |-> last.max_info.description,
               center_info |-> last.center_info.description]
    /\ UNCHANGED << order_fn, order_point_tiles, order_keys, order_futures,
                    order_k, order_c, order_tiles, order_timed_out,
                    order_finished >>
    /\ UNCHANGED notOrderVars

OrderNext ==
    \/ /\ order_pc = "idle"
       /\ \E f \in {"tile_hp", "flood"}, tiles \in RingGeometries :
              OrderCall(f, tiles)
    \/ OrderSubmit
    \/ \E t \in Tiles : OrderFetchStart(t)
    \/ \E t \in Tiles, response \in OrderResponses : OrderFetchEnd(t, response)
    \/ OrderCollect
    \/ /\ order_pc = "join"
       /\ \E reads \in [1..NumPoints -> OrderReads] : OrderReduce(reads)

\* the tile of ring point n was fetched, as its own fetch left it
OrderFetched(n) ==
    /\ order_futures[order_point_tiles[n]] = "img"
    /\ order_point_tiles[n] \notin order_timed_out

\* the classification of the pixel of ring point n
OrderInfo(n) ==
    ClassifyPixel(order_reads[n], ColorMapOf(OrderLayer(order_fn)),
                  NoRiskOf(OrderLayer(order_fn)))

\* the ring points that are classified: tile fetched and pixel read
OrderClassified ==
    {n \in 1..NumPoints : OrderFetched(n) /\ order_reads[n] /= ReadFail}

\* the greatest weight among the classified points and the initial weight 0
OrderGreatest ==
    LET weights == {OrderInfo(n).weight : n \in OrderClassified} \cup {0}
    IN CHOOSE w \in weights : \A v \in weights : v <= w

\* what the call reports for the centre, from ring index 0 alone
OrderCentre ==
    IF ~OrderFetched(1) THEN NoRiskOf(OrderLayer(order_fn))
    ELSE IF order_reads[1] = ReadFail
         THEN IF order_fn = "flood" THEN "shori_shippai"
              ELSE NoRiskOf(OrderLayer(order_fn))
         ELSE OrderInfo(1).description

\* C21: for given tile contents and a given set of fetches that fail (or
\* whose wait times out), the returned maximum and centre are the same under
\* every order in which the fetches start and end: every tile is present
\* exactly when its own fetch gave an image in time, the maximum is the
\* greatest weight among the classified points, and the centre is what ring
\* index 0 holds.
C21_ResultIndependentOfFetchOrder ==
    order_pc = "done" =>
        /\ \A t \in DOMAIN order_tiles :
               order_tiles[t] = Img <=>
                   (order_futures[t] = "img" /\ t \notin order_timed_out)
        /\ CategoryWeight(OrderLayer(order_fn), order_result.max_info)
               = OrderGreatest
        /\ order_result.center_info = OrderCentre

\* a returned call whose second tile was fetched before the centre's tile,
\* with the centre classified and a greater weight elsewhere on the ring
C21_Witness ==
    /\ order_pc = "done"
    /\ Len(order_finished) = 2
    /\ order_finished[1] /= order_point_tiles[1]
    /\ order_futures[order_finished[1]] = "img"
    /\ OrderClassified = 1..NumPoints
    /\ order_result.center_info = "0.5m_ijo_1m_miman"
    /\ order_result.max_info = "3m_ijo_5m_miman"

(***************************************************************************)
(* The worker pool of a parallel tile fetch (fetch_tiles_parallel, and the *)
(* same block in both ring functions of hazard_info.py), over more         *)
(* addresses than the pool has workers.                                    *)
(***************************************************************************)
\* the greatest number of addresses given to one call
PoolTiles == 5

MAX_WORKERS_THREAD_POOL == 4

PoolKeys == 1..PoolTiles

\* what a tile server answers in this part: an image or an error status
PoolResponses == {"image", "http_error"}

PoolInit ==
    /\ pool_pc = "idle"
    /\ pool_n = 0
    /\ pool_futures = [t \in PoolKeys |-> "unused"]
    /\ pool_k = 1
    /\ pool_c = 1
    /\ pool_tiles = [t \in PoolKeys |-> NoneVal]

\* tiles = {key: None for key in tile_urls.keys()} for a mapping of n keys
PoolCall(n) ==
    /\ pool_pc = "idle"
    /\ pool_pc' = "submit"
    /\ pool_n' = n
    /\ UNCHANGED << pool_futures, pool_k, pool_c, pool_tiles >>
    /\ UNCHANGED notPoolVars

\* executor.submit for the next key; after the last key the collection starts
PoolSubmit ==
    /\ pool_pc = "submit"
    /\ IF pool_k <= pool_n
       THEN /\ pool_futures' = [pool_futures EXCEPT ![pool_k] = "queued"]
            /\ pool_k' = pool_k + 1
            /\ UNCHANGED pool_pc
       ELSE /\ pool_pc' = "collect"
            /\ UNCHANGED << pool_futures, pool_k >>
    /\ UNCHANGED << pool_n, pool_c, pool_tiles >>
    /\ UNCHANGED notPoolVars

\* the fetches of this call that a worker is running
InFlight == {t \in PoolKeys : pool_futures[t] = "running"}

\* mutant: a pool that starts a thread for every submitted fetch
WorkerAlwaysFree(in_flight) == TRUE

\* ThreadPoolExecutor(max_workers=...): a queued fetch is taken only by one
\* of the pool's workers, each of which runs one fetch at a time
WorkerFree(in_flight) == Cardinality(in_flight) < MAX_WORKERS_THREAD_POOL

\* a worker takes a queued fetch
PoolFetchStart(t) ==
    /\ pool_futures[t] = "queued"
    /\ WorkerFree(InFlight)
    /\ pool_futures' = [pool_futures EXCEPT ![t] = "running"]
    /\ UNCHANGED << pool_pc, pool_n, pool_k, pool_c, pool_tiles >>
    /\ UNCHANGED notPoolVars

\* the worker's fetch ends with an image, None or an exception
PoolFetchEnd(t, response) ==
    /\ pool_futures[t] = "running"
    /\ pool_futures' =
           [pool_futures EXCEPT ![t] = FutureOf(fetch_single_tile(response))]
    /\ UNCHANGED << pool_pc, pool_n, pool_k, pool_c, pool_tiles >>
    /\ UNCHANGED notPoolVars

\* one iteration of the collection loop (the wait gives up on a fetch that
\* has not ended), or the end of the loop
PoolCollect ==
    /\ pool_pc = "collect"
    /\ IF pool_c <= pool_n
       THEN /\ pool_tiles' =
                  [pool_tiles EXCEPT ![pool_c] = Collected(pool_futures[pool_c])]
            /\ pool_c' = pool_c + 1
            /\ UNCHANGED pool_pc
       ELSE /\ pool_pc' = "join"
            /\ UNCHANGED << pool_tiles, pool_c >>
    /\ UNCHANGED << pool_n, pool_futures, pool_k >>
    /\ UNCHANGED notPoolVars

\* the executor block is left once every submitted fetch has ended
PoolReturn ==
    /\ pool_pc = "join"
    /\ \A t \in PoolKeys : pool_futures[t] \in FutureDone \cup {"unused"}
    /\ pool_pc' = "done"
    /\ UNCHANGED << pool_n, pool_futures, pool_k, pool_c, pool_tiles >>
    /\ UNCHANGED notPoolVars

PoolStep ==
    \/ \E n \in PoolKeys : PoolCall(n)
    \/ PoolSubmit
    \/ PoolCollect
    \/ PoolReturn

PoolWorkers ==
    \/ \E t \in PoolKeys : PoolFetchStart(t)
    \/ \E t \in PoolKeys, response \in PoolResponses : PoolFetchEnd(t, response)

PoolNext == PoolStep \/ PoolWorkers

C22_WitnessAllDispatched ==
    /\ pool_pc = "done"
    /\ pool_n >= 5
    /\ \A t \in 1..pool_n : pool_futures[t] \in FutureDone

(***************************************************************************)
(* The centre first: pref_order starts with the answer of the second       *)
(* lookup of the centre, ordered_points with the centre.                   *)
(***************************************************************************)
\* the key of pref_groups under which the centre (point 0) was grouped
CentreRegion ==
    CHOOSE code \in DOMAIN pref_groups :
        \E m \in DOMAIN pref_groups[code] : pref_groups[code][m] = 0

\* the scan of the centre's region has begun: one of its points was tested
CentreRegionScanned == PointsOf({CentreRegion}) \cap TestedPoints /= {}

\* C23: the region of the centre point is the first region processed, the
\* centre is the first point tested once its region's dataset has loaded,
\* and the returned centre is "ari" exactly when the containment test of
\* the centre answered that it lies in a polygon.
C23_CentreFirst ==
    queries > 0 =>
        /\ loaded /= << >> => loaded[1] = CentreRegion
        /\ CentreRegionScanned => tested[1] = 0
        /\ (fill_pc = "done" /\ CentreRegionScanned) =>
               (fill_result.center_info = "ari" <=> found_at = 0)

\* the second lookup of the centre gave the code the first one gave
SameAnswerTwice == pref_order[1] = CentreRegion

\* the same statement for the queries in which the resolver answered the
\* centre alike both times
CentreFirstIfSameAnswer == (queries > 0 /\ SameAnswerTwice) => C23_CentreFirst

(***************************************************************************)
(* The loader and the cached index.                                        *)
(***************************************************************************)
\* the turn of the outer loop is at a region whose index is in _rtree_cache
AtCachedRegion ==
    /\ fill_pc = "load"
    /\ InCache(pref_order[pref_idx], rtree_cache)

\* C24: loading the dataset and using the cached index are alternatives: at
\* a region whose index is cached the query does not invoke the loader and
\* goes on to scan the region's points with the cached index, whatever the
\* loader would answer.
C24_CachedRegionScannedWithoutLoader ==
    [][AtCachedRegion =>
           /\ loaded' = loaded
           /\ fill_pc' = "scan"
           /\ rtree_pair' = rtree_cache[pref_order[pref_idx]]]_vars

\* a query has skipped a region whose index was cached, because the loader
\* raised or returned nothing
CachedRegionSkipped ==
    /\ fill_pc = "pref"
    /\ pref_idx > 1
    /\ pref_order[pref_idx - 1] \in DOMAIN rtree_cache
    /\ pref_order[pref_idx - 1] \in load_failed
    /\ tested = << >>

(***************************************************************************)
(* The standard mode: one fetch, the centre pixel and its neighbours.      *)
(***************************************************************************)
\* the tile of the running standard-mode call was fetched: the loop runs or
\* has run
TileFetched8 == fn = "tile_8" /\ pc \in {"reduce", "done"} /\ i > 1

PixelsRead == {pixels_read[m] : m \in DOMAIN pixels_read}

\* the centre pixel and its 8 immediate neighbours, as far as they lie in
\* the tile
InTileNeighbourhood ==
    { <<x, y>> \in ((center_px - 1)..(center_px + 1))
                       \X ((center_py - 1)..(center_py + 1)) :
          x >= 0 /\ x < 256 /\ y >= 0 /\ y < 256 }

\* C25: a standard-mode call fetches its one tile once, in the calling
\* thread, and reads at most 9 pixels, each once: the centre pixel and those
\* of its 8 immediate neighbours that lie in [0, 256) on both axes.  The
\* centre is read first whenever the tile was fetched, and a neighbour out
\* of range is never read.
C25_StandardModeReads ==
    /\ [](fn = "tile_8" =>
            /\ futures = NoFutures
            /\ dispatched = << >>
            /\ Len(pixels_read) <= 9
            /\ Cardinality(PixelsRead) = Len(pixels_read)
            /\ PixelsRead \subseteq InTileNeighbourhood
            /\ TileFetched8 => pixels_read[1] = <<center_px, center_py>>
            /\ (TileFetched8 /\ pc = "done") => PixelsRead = InTileNeighbourhood
            /\ ~TileFetched8 => pixels_read = << >>)
    /\ [][fn = "tile_8" => pc' /= "fetch"]_vars

\* a returned standard-mode call whose centre is the lower left corner of
\* the tile: 4 pixels were read, 5 neighbours skipped
C25_Witness ==
    /\ fn = "tile_8"
    /\ pc = "done"
    /\ center_px = 0
    /\ center_py = 255
    /\ pixels_read = << <<0, 255>>, <<0, 254>>, <<1, 254>>, <<1, 255>> >>

\* a returned standard-mode call that read all 9 pixels
C25_WitnessInner ==
    /\ fn = "tile_8"
    /\ pc = "done"
    /\ Len(pixels_read) = 9

(***************************************************************************)
(* format_all_hazard_info_for_display applied to the report that           *)
(* get_selective_hazard_info returned.                                     *)
(***************************************************************************)
\* {}: the default of hazards.get(key, {})
EmptyDict == << >>

\* d.get(key, default)
Get(d, key, default) == IF key \in DOMAIN d THEN d[key] ELSE default

\* a probability of the report (percent, -1 for None) as the formatter's
\* argument
ProbabilityOf(percent) ==
    IF percent = -1 THEN [type |-> "None", thousandths |-> 0]
    ELSE [type |-> "float", thousandths |-> percent * 10]

\* the keys of display_info, in the order they are stored
DisplayKeys ==
    << "jishin_shindo_5kyo", "jishin_shindo_6kyo", "sotei_saidai_shinsuishin",
       "shinsui_keizoku_jikan", "tsunami_shinsui_sotei",
       "takashio_shinsui_sotei", "daikibo_morido_zoseichi",
       "dosha_saigai_keikai_kuiki" >>

\* ", ".join(descriptions)
RECURSIVE Join(_)
Join(descriptions) ==
    IF descriptions = << >> THEN ""
    ELSE IF Len(descriptions) = 1 THEN descriptions[1]
         ELSE descriptions[1] \o ", " \o Join(Tail(descriptions))

\* d[key] is evaluated without KeyError
SubscriptOk(d, key) == key \in DOMAIN d

\* the three layers of the landslide entry, in the order they are read
LandslideLayers == << "debris_flow", "steep_slope", "landslide" >>

\* the descriptions appended for field fld: of every layer whose value under
\* fld is not "gaito_nashi"
RECURSIVE LandslideDescriptions(_, _, _)
LandslideDescriptions(landslide_hazard_data, fld, n) ==
    IF n = 0 THEN << >>
    ELSE LET data == Get(landslide_hazard_data, LandslideLayers[n], EmptyDict)
             before == LandslideDescriptions(landslide_hazard_data, fld, n - 1)
         IN IF Get(data, fld, NoneVal) /= "gaito_nashi"
            THEN Append(before, Get(data, fld, NoneVal))
            ELSE before

\* format_all_hazard_info_for_display: [kind, value], the value being
\* display_info
format_all_hazard_info_for_display(hazards, enabled) ==
    LET Prob(key, fld) ==
            format_jshis_probability(
                ProbabilityOf(Get(Get(hazards, key, EmptyDict), fld, -1)))
        Earthquake(key) ==
            format_hazard_output_string(Prob(key, "max_prob").value,
                                        Prob(key, "center_prob").value,
                                        "deta_nashi")
        Layer(key, no_data_str) ==
            format_hazard_output_string(
                Get(Get(hazards, key, EmptyDict), "max_info", NoneVal),
                Get(Get(hazards, key, EmptyDict), "center_info", NoneVal),
                no_data_str)
        landslide_hazard_data == Get(hazards, "landslide_hazard", EmptyDict)
        key_error ==
            \E n \in 1..Len(LandslideLayers), fld \in InfoFields :
                LET data == Get(landslide_hazard_data, LandslideLayers[n],
                                EmptyDict)
                IN /\ Get(data, fld, NoneVal) /= "gaito_nashi"
                   /\ ~SubscriptOk(data, fld)
        max_landslide_descriptions ==
            LandslideDescriptions(landslide_hazard_data, "max_info",
                                  Len(LandslideLayers))
        center_landslide_descriptions ==
            LandslideDescriptions(landslide_hazard_data, "center_info",
                                  Len(LandslideLayers))
        max_landslide_str ==
            IF max_landslide_descriptions /= << >>
            THEN Join(max_landslide_descriptions) ELSE "gaito_nashi"
        center_landslide_str ==
            IF center_landslide_descriptions /= << >>
            THEN Join(center_landslide_descriptions) ELSE "gaito_nashi"
        keys == {DisplayKeys[n] : n \in 1..Len(DisplayKeys)}
                    \ (IF enabled /\ "large_fill_land" \in DOMAIN hazards
                       THEN {} ELSE {"daikibo_morido_zoseichi"})
    IN IF key_error
       THEN [kind |-> "raise", value |-> NoDisplay]
       ELSE [kind |-> "return",
             value |->
                 [key \in keys |->
                    CASE key = "jishin_shindo_5kyo" -> Earthquake("jshis_prob_50")
                      [] key = "jishin_shindo_6kyo" -> Earthquake("jshis_prob_60")
                      [] key = "sotei_saidai_shinsuishin" ->
                             Layer("inundation_depth", "shinsui_nashi")
                      [] key = "shinsui_keizoku_jikan" ->
                             Layer("flood_keizoku", "shinsui_sotei_nashi")
                      [] key = "tsunami_shinsui_sotei" ->
                             Layer("tsunami_inundation", "shinsui_sotei_nashi")
                      [] key = "takashio_shinsui_sotei" ->
                             Layer("hightide_inundation", "shinsui_sotei_nashi")
                      [] key = "daikibo_morido_zoseichi" ->
                             Layer("large_fill_land", "joho_nashi")
                      [] OTHER ->
                             format_hazard_output_string(
                                 max_landslide_str, center_landslide_str,
                                 "gaito_nashi")]]

\* the caller formats the report it was returned
Display ==
    /\ facade_pc = "done"
    /\ LET formatted == format_all_hazard_info_for_display(
                            hazard_info, ENABLE_LARGE_FILL_LAND)
       IN /\ facade_pc' = IF formatted.kind = "raise" THEN "display_raised"
                          ELSE "displayed"
          /\ display_info' = formatted.value
    /\ UNCHANGED << ENABLE_LARGE_FILL_LAND, hazard_types, types_given,
                    precision, tile_response, tile_read, hazard_info, called >>
    /\ UNCHANGED notFacadeVars

\* the calls of get_selective_hazard_info, each followed by the formatting
\* of what it returned
FacadeDisplayNext == FacadeNext \/ Display

\* C26: format_all_hazard_info_for_display returns a display mapping,
\* without raising, for every report get_selective_hazard_info returns,
\* whatever set of categories was requested: also for a report without the
\* landslide entry or without the earthquake entries.
C26_DisplayNeverRaises ==
    /\ facade_pc /= "display_raised"
    /\ facade_pc = "displayed" =>
           {DisplayKeys[n] : n \in 1..Len(DisplayKeys)}
               \ {"daikibo_morido_zoseichi"} \subseteq DOMAIN display_info

\* the same for the reports that hold the landslide entry
DisplayOfLandslideReport ==
    "landslide_hazard" \in DOMAIN hazard_info => C26_DisplayNeverRaises

\* a report without the earthquake entries was formatted
DisplayedWithoutEarthquake ==
    /\ facade_pc = "displayed"
    /\ "jshis_prob_50" \notin DOMAIN hazard_info
    /\ display_info["jishin_shindo_5kyo"] = "deta_nashi"

(***************************************************************************)
(* The names lambda_handler accepts and the blocks that answer them.       *)
(***************************************************************************)
\* the entries of the report that no category other than `name` stores
EntriesFor(name) ==
    DOMAIN hazard_info
        \ UNION {CategoryKeys[other] : other \in DOMAIN CategoryKeys \ {name}}

\* the names of the request that lambda_handler accepts as valid
AcceptedRequested == hazard_types \cap valid_hazard_types

\* C27: every hazard type name that lambda_handler accepts as valid gets at
\* least one entry in the report of a call that returns when it is
\* requested; none is answered with nothing.
C27_AcceptedNameGetsEntry ==
    facade_pc = "done" =>
        \A name \in AcceptedRequested : EntriesFor(name) /= {}

\* the same for the seven names that have a block
NameWithBlockGetsEntry ==
    facade_pc = "done" =>
        \A name \in AcceptedRequested \ {"kaokutoukai_hanran"} :
            EntriesFor(name) /= {}

\* a call asked for large_fill_land alone with the flag unset has returned
\* the entry that says the category is disabled
DisabledFillLandAnswered ==
    /\ facade_pc = "done"
    /\ ~ENABLE_LARGE_FILL_LAND
    /\ hazard_types = {"large_fill_land"}
    /\ hazard_info["large_fill_land"].max_info = "muko"

(***************************************************************************)
(* geojsonhelper.load_large_geojson: the dataset of a key is downloaded to *)
(* /tmp/<basename of key> when that file does not exist, then parsed from  *)
(* the file.                                                               *)
(***************************************************************************)
\* calls made in one process
MaxLoads == 4

\* the keys asked for: the datasets of two prefectures
CacheKeys == PrefCodes

CacheInit ==
    /\ cache_pc = "idle"
    /\ cache_key = "none"
    /\ cache_file = [key \in CacheKeys |-> "absent"]
    /\ cache_download = "no"
    /\ cache_result = "none"
    /\ cache_calls = 0
    /\ cache_done = {}

\* load_large_geojson(bucket, key) is called
CallLoad(key) ==
    /\ cache_pc \in {"idle", "returned"}
    /\ cache_calls < MaxLoads
    /\ cache_calls' = cache_calls + 1
    /\ cache_key' = key
    /\ cache_download' = "no"
    /\ cache_result' = "none"
    /\ cache_pc' = "check"
    /\ UNCHANGED << cache_file, cache_done >>
    /\ UNCHANGED notCacheVars

\* os.path.exists(local_path)
Exists(file) == file /= "absent"

\* "if not os.path.exists(local_path)": the download is skipped when the
\* file exists; otherwise open(local_path, "wb") creates it, empty
CheckLocal ==
    /\ cache_pc = "check"
    /\ IF Exists(cache_file[cache_key])
       THEN /\ cache_pc' = "read"
            /\ UNCHANGED cache_file
       ELSE /\ cache_pc' = "download"
            /\ cache_file' = [cache_file EXCEPT ![cache_key] = "partial"]
    /\ UNCHANGED << cache_key, cache_download, cache_result, cache_calls,
                    cache_done >>
    /\ UNCHANGED notCacheVars

\* s3.download_fileobj(bucket, key, f) inside "with open(...) as f": it
\* writes the whole object, or raises (store unreachable, no such key, a
\* broken transfer) and leaves the file as far as it was written
Download(ok) ==
    /\ cache_pc = "download"
    /\ IF ok
       THEN /\ cache_file' = [cache_file EXCEPT ![cache_key] = "complete"]
            /\ cache_download' = "ok"
            /\ cache_done' = cache_done \cup {cache_key}
            /\ cache_pc' = "read"
            /\ UNCHANGED cache_result
       ELSE /\ cache_download' = "failed"
            /\ cache_result' = "raise"
            /\ cache_pc' = "returned"
            /\ UNCHANGED << cache_file, cache_done >>
    /\ UNCHANGED << cache_key, cache_calls >>
    /\ UNCHANGED notCacheVars

\* json.load of the local file: a file that is not the whole object does
\* not parse
ReadLocal ==
    /\ cache_pc = "read"
    /\ cache_result' = IF cache_file[cache_key] = "complete" THEN "dataset"
                       ELSE "raise"
    /\ cache_pc' = "returned"
    /\ UNCHANGED << cache_key, cache_file, cache_download, cache_calls,
                    cache_done >>
    /\ UNCHANGED notCacheVars

CacheNext ==
    \/ \E key \in CacheKeys : CallLoad(key)
    \/ CheckLocal
    \/ \E ok \in BOOLEAN : Download(ok)
    \/ ReadLocal

\* C28: a call whose download fails does not poison the local file cache.
\* A call raises only when its own download failed, so a later call for
\* the key whose download succeeds returns the dataset; a call that does
\* not download is one made after a successful download of its key; and
\* no call downloads a key whose download has already succeeded.
C28_FailedDownloadDoesNotPoison ==
    /\ cache_pc = "download" => cache_key \notin cache_done
    /\ cache_pc = "returned" =>
           /\ cache_result = "raise" <=> cache_download = "failed"
           /\ cache_download = "no" => cache_key \in cache_done

\* a call that did not download has raised: the file an earlier failed
\* download left behind was taken for the cached dataset
PoisonedRead ==
    /\ cache_pc = "returned"
    /\ cache_download = "no"
    /\ cache_result = "raise"
    /\ cache_key \notin cache_done

\* the part of the claim about a successful download: the later calls for
\* the key read the local file without downloading and return the dataset
CachedAfterSuccess ==
    (cache_pc = "returned" /\ cache_key \in cache_done) =>
        /\ cache_result = "dataset"
        /\ cache_file[cache_key] = "complete"

\* a call has returned the dataset of a key without downloading it
CachedReadReached ==
    /\ cache_pc = "returned"
    /\ cache_download = "no"
    /\ cache_result = "dataset"

(***************************************************************************)
(* get_jshis_info as a call of its own, next to the raster sampling calls: *)
(* the probability API answers each point independently.                   *)
(***************************************************************************)
\* what _fetch_jshis_data returns for one point, in percent, -1 standing
\* for None: no value, a zero probability, and two unequal pairs
JshisAnswers ==
    { [prob_50 |-> -1, prob_60 |-> -1], [prob_50 |-> 0, prob_60 |-> -1],
      [prob_50 |-> 26, prob_60 |-> 6], [prob_50 |-> 80, prob_60 |-> 30] }

JshisInit ==
    /\ jshis_pc = "idle"
    /\ jshis_data = [n \in PointIndices |-> [prob_50 |-> -1, prob_60 |-> -1]]
    /\ jshis_result = JshisLoop(<< >>, -1)

\* get_jshis_info(lat, lon): the futures are collected in submission order,
\* centre first, and the four results are stored
CallJshis(data) ==
    /\ jshis_pc = "idle"
    /\ pc = "idle"
    /\ jshis_pc' = "done"
    /\ jshis_data' = data
    /\ jshis_result' = get_jshis_info(data)
    /\ UNCHANGED notJshisVars

JshisNext == \E data \in [PointIndices -> JshisAnswers] : CallJshis(data)

\* the sampling functions: one call of a raster function or of get_jshis_info
SamplingNext ==
    \/ jshis_pc = "idle" /\ RasterNext
    \/ JshisNext

\* C29: in every raster sampling result (standard mode, high-precision
\* mode, flood depth with or without the fallback merge) the weight of the
\* reported maximum category is at least the weight of the reported centre
\* category; and in the result of get_jshis_info a present centre
\* probability comes with a present maximum that is not smaller.
C29_MaxNotBelowCentre ==
    /\ Returned =>
           CategoryWeight(layer, result.max_info)
               >= CategoryWeight(layer, result.center_info)
    /\ jshis_pc = "done" =>
           /\ jshis_result.center_prob_50 /= -1 =>
                  /\ jshis_result.max_prob_50 /= -1
                  /\ jshis_result.max_prob_50 >= jshis_result.center_prob_50
           /\ jshis_result.center_prob_60 /= -1 =>
                  /\ jshis_result.max_prob_60 /= -1
                  /\ jshis_result.max_prob_60 >= jshis_result.center_prob_60

\* a flood call has returned after the fallback merge with a centre
\* category it classified and a maximum of greater weight
C29_Witness ==
    /\ Returned
    /\ fn = "flood"
    /\ merged
    /\ CategoryWeight(layer, result.center_info) > 0
    /\ CategoryWeight(layer, result.max_info)
           > CategoryWeight(layer, result.center_info)

\* a standard-mode call has returned a centre below the maximum
StandardCentreBelowMax ==
    /\ Returned
    /\ fn = "tile_8"
    /\ CategoryWeight(layer, result.max_info)
           > CategoryWeight(layer, result.center_info)

\* a flood call has returned "shori_shippai" for the centre
FloodCentreFailed ==
    /\ Returned
    /\ fn = "flood"
    /\ result.center_info = "shori_shippai"

\* get_jshis_info has returned a centre probability below the maximum
JshisCentreBelowMax ==
    /\ jshis_pc = "done"
    /\ jshis_result.center_prob_50 /= -1
    /\ jshis_result.max_prob_50 > jshis_result.center_prob_50

\* get_jshis_info has returned the centre's probability as the maximum
JshisCentreIsMax ==
    /\ jshis_pc = "done"
    /\ jshis_result.center_prob_60 = 30
    /\ jshis_result.max_prob_60 = 30
    /\ \E n \in PointIndices : n /= 0 /\ jshis_data[n].prob_60 = 6

(***************************************************************************)
(* The region resolver of the fill-land query.                             *)
(***************************************************************************)
\* C30: the fill-land query returns without raising whatever the resolver
\* get_pref_code answers, None for some or all points and a second answer
\* for the centre that differs from the first included: every region code
\* of the processing order is a key of the point groups.
C30_EveryOrderedCodeIsGroupKey ==
    /\ fill_pc /= "raised"
    /\ fill_pc /= "idle" =>
           \A n \in 1..Len(pref_order) : pref_order[n] \in DOMAIN pref_groups

\* the query has raised KeyError on the code of the second lookup
RaisedOnSecondAnswer ==
    /\ fill_pc = "raised"
    /\ pref_idx = 1
    /\ pref_order[1] \notin DOMAIN pref_groups

\* the part of the claim about absent codes: a query whose two lookups of
\* the centre agree never raises, with None for some or all points too
NoRaiseIfSameAnswer ==
    (queries > 0 /\ SameAnswerTwice) =>
        /\ fill_pc /= "raised"
        /\ \A n \in 1..Len(pref_order) : pref_order[n] \in DOMAIN pref_groups

\* a query for which the resolver knew no region at all has returned
ReturnedWithoutAnyRegion ==
    /\ fill_pc = "done"
    /\ DOMAIN pref_groups = {NoneVal}
    /\ pref_order = <<NoneVal>>

(***************************************************************************)
(* The specifications.  Each runs one part of the program and leaves the   *)
(* state of the others as constructed.                                     *)
(***************************************************************************)
Init ==
    /\ RasterInit /\ FillInit /\ FacadeInit /\ FormatInit /\ ThreadInit
    /\ LambdaInit /\ ReduceInit /\ OrderInit /\ PoolInit /\ CacheInit
    /\ JshisInit

\* the raster and the query specifications run with the flag unset
InitFlagUnset == Init /\ ~ENABLE_LARGE_FILL_LAND

SpecRaster == InitFlagUnset /\ [][RasterNext]_vars

SpecFill == InitFlagUnset /\ [][FillNext]_vars

SpecFacade == Init /\ [][FacadeDisplayNext]_vars

SpecFormat == Init /\ [][FormatNext]_vars

SpecThreads == InitFlagUnset /\ [][ThreadNext]_vars

SpecLambda == InitFlagUnset /\ [][LambdaNext]_vars

SpecReduce == InitFlagUnset /\ [][ReduceNext]_vars

SpecOrder == InitFlagUnset /\ [][OrderNext]_vars

SpecCache == InitFlagUnset /\ [][CacheNext]_vars

SpecSampling == InitFlagUnset /\ [][SamplingNext]_vars

\* the calling thread goes on, a free worker takes a queued fetch, and every
\* fetch ends (the HTTP timeout bounds each read of the socket)
SpecPool ==
    /\ InitFlagUnset
    /\ [][PoolNext]_vars
    /\ WF_vars(PoolStep)
    /\ WF_vars(PoolWorkers)

====
